---------------------------- MODULE Spec2Model ----------------------------
(***************************************************************************)
(* A model of pg_sexp: the S-expression data type for PostgreSQL.          *)
(*                                                                         *)
(* Values are modelled as the byte sequences the code stores (format       *)
(* version 6: version byte, symbol table, root element), texts as          *)
(* sequences of one-character strings.  Every operation of the code is an  *)
(* operator computed on those bytes the way the C code computes it.        *)
(* Positions are 1-based indices into a byte sequence: position p here is  *)
(* the C pointer data + (p - 1).                                           *)
(***************************************************************************)
EXTENDS Integers, Sequences, FiniteSets, TLC

(***************************************************************************)
(* With(value, Body) is Body(value) with the value computed once, where a  *)
(* LET definition would be computed again at each of its uses.             *)
(***************************************************************************)
With(value, Body(_)) == CHOOSE r \in {Body(v) : v \in {value}} : TRUE

(***************************************************************************)
(* uint32 arithmetic.  A uint32 is the pair <<high half, low half>> of its *)
(* two 16-bit halves, so that every intermediate result stays far below    *)
(* the 32-bit integers of the model checker.                               *)
(***************************************************************************)
RECURSIVE Xor16(_, _)
Xor16(a, b) ==
    IF a = 0 THEN b
    ELSE IF b = 0 THEN a
    ELSE ((a + b) % 2) + 2 * Xor16(a \div 2, b \div 2)

\* The uint32 of a natural number below 2^31.
U32(n) == <<n \div 65536, n % 65536>>

\* a ^ b on uint32.
U32Xor(a, b) ==
    With(<<a, b>>, LAMBDA v : <<Xor16(v[1][1], v[2][1]), Xor16(v[1][2], v[2][2])>>)

\* a + b on uint32 (wraps modulo 2^32).
U32Add(a, b) ==
    <<(a[1] + b[1] + ((a[2] + b[2]) \div 65536)) % 65536, (a[2] + b[2]) % 65536>>

\* a - b on uint32 (wraps modulo 2^32).
U32Sub(a, b) ==
    <<(a[1] - b[1] - (IF a[2] < b[2] THEN 1 ELSE 0)) % 65536, (a[2] - b[2]) % 65536>>

\* x << k on uint32, 0 <= k < 16.
U32Shl(x, k) ==
    <<((x[1] * (2 ^ k)) % 65536) + (x[2] \div (2 ^ (16 - k))), (x[2] * (2 ^ k)) % 65536>>

\* x >> k on uint32, 0 <= k < 16.
U32Shr(x, k) ==
    <<x[1] \div (2 ^ k), (x[2] \div (2 ^ k)) + ((x[1] % (2 ^ k)) * (2 ^ (16 - k)))>>

\* rotl32(x, r) = (x << r) | (x >> (32 - r)), for 0 <= r < 32.  For r = 0
\* the C expression shifts by 32, which is undefined; every build either
\* yields x >> 32 = x or x >> 32 = 0, and (x << 0) | either one is x.
rotl32(x, r) ==
    LET hi == IF r >= 16 THEN x[2] ELSE x[1]
        lo == IF r >= 16 THEN x[1] ELSE x[2]
        p  == 2 ^ (r % 16)
        q  == 2 ^ (16 - (r % 16))
    IN  <<((hi * p) % 65536) + (lo \div q), ((lo * p) % 65536) + (hi \div q)>>

\* The little-endian uint32 of up to four bytes (missing bytes read as 0).
LEWord(k, from, n) ==
    LET B(i) == IF i <= n /\ from + i - 1 <= Len(k) THEN k[from + i - 1] ELSE 0
    IN  <<B(4) * 256 + B(3), B(2) * 256 + B(1)>>

(***************************************************************************)
(* PostgreSQL's hash functions (Bob Jenkins' lookup3), which the code      *)
(* calls for every hash it computes.                                       *)
(***************************************************************************)
\* 0x9e3779b9 + 3923095, the initial value of hash_bytes before the length.
JenkinsInit == U32Add(<<40503, 31161>>, U32(3923095))

\* mix(a,b,c) of hashfn.c on the triple abc.  Its six lines are one step,
\* x -= z; x ^= rot(z,k); z += y, on (a,b,c), (b,c,a), (c,a,b), (a,b,c),
\* (b,c,a), (c,a,b): s holds (x,y,z), and the next line's in that order.
JenkinsMix(abc) ==
    LET k == <<4, 6, 8, 16, 19, 4>>
        RECURSIVE line(_, _)
        line(i, s) ==
            IF i > 6 THEN s
            ELSE With(<<s[2], U32Add(s[3], s[2]),
                        U32Xor(U32Sub(s[1], s[3]), rotl32(s[3], k[i]))>>,
                      LAMBDA t : line(i + 1, t))
    IN  line(1, abc)

\* final(a,b,c) of hashfn.c; the hash is the resulting c.  Its seven lines
\* are one step, x ^= y; x -= rot(y,k), on (c,b), (a,c), (b,a), (c,b),
\* (a,c), (b,a), (c,b): s holds (x, y, the third), and the next line's.
JenkinsFinal(a0, b0, c0) ==
    LET k == <<14, 11, 25, 16, 4, 14, 24>>
        RECURSIVE line(_, _)
        line(i, s) ==
            IF i > 7 THEN s[2]
            ELSE With(<<s[3], U32Sub(U32Xor(s[1], s[2]), rotl32(s[2], k[i])), s[2]>>,
                      LAMBDA t : line(i + 1, t))
    IN  With(<<c0, b0, a0>>, LAMBDA s : line(1, s))

\* The state abc after the 12-byte blocks of k from position `from` on.
RECURSIVE JenkinsBlocks(_, _, _)
JenkinsBlocks(k, from, abc) ==
    IF Len(k) - from + 1 < 12 THEN <<from, abc>>
    ELSE With(JenkinsMix(<<U32Add(abc[1], LEWord(k, from, 4)),
                           U32Add(abc[2], LEWord(k, from + 4, 4)),
                           U32Add(abc[3], LEWord(k, from + 8, 4))>>),
              LAMBDA mixed : JenkinsBlocks(k, from + 12, mixed))

\* hash_bytes(k, len): the tail of fewer than 12 bytes goes into a, b and
\* the three high bytes of c (its low byte holds the length).
hash_bytes(key) ==
    With(key, LAMBDA k :
    With(U32Add(JenkinsInit, U32(Len(k))), LAMBDA init :
    With(JenkinsBlocks(k, 1, <<init, init, init>>), LAMBDA st :
        LET from == st[1]
            n    == Len(k) - from + 1
            rest == LEWord(k, from + 8, n - 8)
            a    == U32Add(st[2][1], LEWord(k, from, n))
            b    == U32Add(st[2][2], LEWord(k, from + 4, n - 4))
            c    == U32Add(st[2][3],
                           <<rest[1] * 256 + rest[2] \div 256, (rest[2] % 256) * 256>>)
        IN  JenkinsFinal(a, b, c))))

\* hash_bytes_uint32(k).
hash_bytes_uint32(k) ==
    With(U32Add(JenkinsInit, U32(4)), LAMBDA init :
        JenkinsFinal(U32Add(init, k), init, init))

\* hash_combine(a, b) = a ^ (b + 0x9e3779b9 + (a << 6) + (a >> 2)).
hash_combine(a0, b0) ==
    With(<<a0, b0>>, LAMBDA v :
        U32Xor(v[1], U32Add(U32Add(U32Add(v[2], <<40503, 31161>>), U32Shl(v[1], 6)),
                            U32Shr(v[1], 2))))

(***************************************************************************)
(* The binary format (version 6).                                          *)
(***************************************************************************)
SEXP_FORMAT_VERSION == 6
SEXP_TAG_NIL == 0
SEXP_TAG_SMALLINT == 32
SEXP_TAG_INTEGER == 64
SEXP_TAG_FLOAT == 96
SEXP_TAG_SYMBOL_REF == 128
SEXP_TAG_SHORT_STRING == 160
SEXP_TAG_LONG_STRING == 192
SEXP_TAG_LIST == 224
SEXP_SMALL_LIST_MAX == 4
SEXP_SMALLINT_MIN == -16
SEXP_SMALLINT_MAX == 15
SEXP_SMALLINT_BIAS == 16
SEXP_SHORT_STRING_MAX == 31
SEXP_MAX_DEPTH == 1000
SENTRY_TYPE_NIL == 0
SENTRY_TYPE_INTEGER == 1
SENTRY_TYPE_FLOAT == 2
SENTRY_TYPE_SYMBOL == 3
SENTRY_TYPE_STRING == 4
SENTRY_TYPE_LIST == 5

\* byte & SEXP_TAG_MASK and byte & SEXP_DATA_MASK.
TagOf(byte) == (byte \div 32) * 32
DataOf(byte) == byte % 32

\* The four little-endian bytes of a uint32, and the uint32 at position p.
U32Bytes(w) == <<w[2] % 256, w[2] \div 256, w[1] % 256, w[1] \div 256>>
ReadU32(d, p) == <<d[p + 3] * 256 + d[p + 2], d[p + 1] * 256 + d[p]>>

\* encode_varint: seven bits per byte, low bits first.
RECURSIVE encode_varint(_)
encode_varint(value) ==
    IF value >= 128 THEN <<128 + (value % 128)>> \o encode_varint(value \div 128)
    ELSE <<value>>

\* decode_varint(&ptr, end): <<value, ptr after the call>>.  At ptr >= end
\* it returns 0 and leaves ptr alone.
decode_varint(d, ptr, end) ==
    LET RECURSIVE more(_, _, _)
        more(p, result, scale) ==
            IF p >= end THEN <<result, p>>
            ELSE IF d[p] < 128 THEN <<result + d[p] * scale, p + 1>>
            ELSE more(p + 1, result + (d[p] % 128) * scale, scale * 128)
    IN  IF ptr >= end THEN <<0, ptr>>
        ELSE IF d[ptr] < 128 THEN <<d[ptr], ptr + 1>>
        ELSE more(ptr + 1, d[ptr] % 128, 128)

\* zigzag_encode / zigzag_decode.
zigzag_encode(value) == IF value >= 0 THEN 2 * value ELSE -2 * value - 1
zigzag_decode(value) == IF value % 2 = 0 THEN value \div 2 ELSE -((value + 1) \div 2)

\* The eight little-endian bytes of an int64 (two's complement).
Int64Bytes(val) ==
    IF val >= 0 THEN U32Bytes(U32(val)) \o <<0, 0, 0, 0>>
    ELSE LET m == -val - 1
         IN  U32Bytes(<<65535 - (m \div 65536), 65535 - (m % 65536)>>) \o <<255, 255, 255, 255>>

(***************************************************************************)
(* The hash functions of pg_sexp.h.                                        *)
(***************************************************************************)
sexp_hash_uint32(value) == hash_bytes_uint32(U32(value))

sexp_hash_string_with_tag(tag, str) ==
    hash_combine(hash_bytes_uint32(U32(tag)), hash_bytes(str))

sexp_hash_int64(value) == hash_bytes(Int64Bytes(value))

\* A double is its eight little-endian bytes.  value == 0.0 holds for +0.0
\* and -0.0, and the assignment makes both hash as +0.0.
IsZeroDouble(b) == /\ \A i \in 1..7 : b[i] = 0
                   /\ b[8] \in {0, 128}
sexp_hash_float64(b) ==
    hash_bytes(IF IsZeroDouble(b) THEN <<0, 0, 0, 0, 0, 0, 0, 0>> ELSE b)

sexp_hash_combine(parent_hash, child_hash, position) ==
    hash_combine(parent_hash, rotl32(child_hash, position % 31))

\* The hash of an integer (either encoding) and of a float.
IntegerHash(val) ==
    hash_combine(sexp_hash_uint32(SEXP_TAG_INTEGER), sexp_hash_int64(val))
FloatHash(b) ==
    hash_combine(sexp_hash_uint32(SEXP_TAG_FLOAT), sexp_hash_float64(b))

\* The hash a list starts from: its count and the list tag.
ListHashSeed(count) ==
    hash_combine(sexp_hash_uint32(count), sexp_hash_uint32(SEXP_TAG_LIST))

(***************************************************************************)
(* Text.  A text is a sequence of one-character strings; the parser reads  *)
(* its bytes, as the C code reads a char array.                            *)
(***************************************************************************)
Letters == <<"a", "b", "c", "d", "e", "f", "g", "h", "i", "j", "k", "l", "m",
             "n", "o", "p", "q", "r", "s", "t", "u", "v", "w", "x", "y", "z">>
Digits == <<"0", "1", "2", "3", "4", "5", "6", "7", "8", "9">>
Punctuation == <<" ", "!", "\"", "#", "$", "%", "&", "'", "(", ")", "*", "+", ",", "-", ".", "/">>
OtherChars == {<<";", 59>>, <<"?", 63>>, <<"\\", 92>>, <<"_", 95>>, <<"E", 69>>, <<"\n", 10>>}

\* The byte (ASCII code) of a character, and the character of a byte.
Ord(c) ==
    CASE \E i \in 1..26 : Letters[i] = c -> 96 + (CHOOSE i \in 1..26 : Letters[i] = c)
      [] \E i \in 1..10 : Digits[i] = c -> 47 + (CHOOSE i \in 1..10 : Digits[i] = c)
      [] \E i \in 1..16 : Punctuation[i] = c -> 31 + (CHOOSE i \in 1..16 : Punctuation[i] = c)
      [] OTHER -> (CHOOSE o \in OtherChars : o[1] = c)[2]
Chr(b) ==
    CASE b >= 97 /\ b <= 122 -> Letters[b - 96]
      [] b >= 48 /\ b <= 57 -> Digits[b - 47]
      [] b >= 32 /\ b <= 47 -> Punctuation[b - 31]
      [] OTHER -> (CHOOSE o \in OtherChars : o[2] = b)[1]

\* The bytes of a text, and the text of bytes.
TextBytes(text) == [i \in 1..Len(text) |-> Ord(text[i])]
BytesText(bytes) == [i \in 1..Len(bytes) |-> Chr(bytes[i])]

\* isspace and isdigit in the C locale.
isspace(c) == c = 32 \/ (c >= 9 /\ c <= 13)
isdigit(c) == c >= 48 /\ c <= 57

\* The subsequence d[from .. to - 1] (the C range [from, to)).
Slice(d, from, to) == SubSeq(d, from, to - 1)

(***************************************************************************)
(* The parser (sexp_parser.c).  Every parse function returns the record    *)
(* [ptr, symtab, out, hash, err]: the input position after the element,    *)
(* the symbol table, the bytes appended to the output buffer, the hash of  *)
(* the element, and the error raised ("" when none).                       *)
(***************************************************************************)
ParseResult(ptr, symtab, out, hash) ==
    [ptr |-> ptr, symtab |-> symtab, out |-> out, hash |-> hash, err |-> ""]
ParseError(msg) ==
    [ptr |-> 0, symtab |-> <<>>, out |-> <<>>, hash |-> <<0, 0>>, err |-> msg]

\* intern_symbol with no lookup: every symbol read is a new entry.
intern_symbol_always_new(symtab, sym) == <<Len(symtab), Append(symtab, sym)>>

\* intern_symbol: <<index, symbol table>>; the index of the symbol with the
\* same bytes if there is one, else that of a new last entry.  Indices are
\* 0-based as in the code.
intern_symbol(symtab, sym) ==
    IF \E i \in 1..Len(symtab) : symtab[i] = sym
    THEN <<(CHOOSE i \in 1..Len(symtab) : symtab[i] = sym) - 1, symtab>>
    ELSE <<Len(symtab), Append(symtab, sym)>>

\* skip_whitespace: the position after spaces and ; comments.
skip_whitespace(input, ptr) ==
    LET RECURSIVE skip(_, _)
        skip(p, comment) ==
            IF p > Len(input) THEN p
            ELSE IF comment THEN (IF input[p] # 10 THEN skip(p + 1, TRUE) ELSE skip(p, FALSE))
            ELSE IF isspace(input[p]) THEN skip(p + 1, FALSE)
            ELSE IF input[p] = 59 THEN skip(p, TRUE)
            ELSE p
    IN  skip(ptr, FALSE)

\* parse_string: a quoted string with backslash escapes.
parse_string(input, ptr, symtab) ==
    LET Unescape(c) == CASE c = 110 -> 10 [] c = 116 -> 9 [] c = 114 -> 13 [] OTHER -> c
        RECURSIVE scan(_, _)
        scan(p, str) ==
            IF p > Len(input) THEN [p |-> p, str |-> str, err |-> "unterminated string"]
            ELSE IF input[p] = 34 THEN [p |-> p + 1, str |-> str, err |-> ""]
            ELSE IF input[p] = 92
                 THEN IF p + 1 > Len(input)
                      THEN [p |-> p, str |-> str, err |-> "unterminated string escape"]
                      ELSE With(Append(str, Unescape(input[p + 1])),
                                LAMBDA longer : scan(p + 2, longer))
            ELSE With(Append(str, input[p]), LAMBDA longer : scan(p + 1, longer))
    IN  With(scan(ptr + 1, <<>>), LAMBDA s :
            IF s.err # "" THEN ParseError(s.err)
            ELSE ParseResult(s.p, symtab,
                     IF Len(s.str) <= SEXP_SHORT_STRING_MAX
                     THEN <<SEXP_TAG_SHORT_STRING + Len(s.str)>> \o s.str
                     ELSE <<SEXP_TAG_LONG_STRING>> \o encode_varint(Len(s.str)) \o s.str,
                     sexp_hash_string_with_tag(SEXP_TAG_SHORT_STRING, s.str)))

\* The value of a run of decimal digits.
RECURSIVE DigitsValue(_)
DigitsValue(digits) ==
    IF digits = <<>> THEN 0
    ELSE 10 * DigitsValue(SubSeq(digits, 1, Len(digits) - 1)) + (digits[Len(digits)] - 48)

\* strtoll(numstr, .., 10) on a token [+-]digits.
strtoll(tok) ==
    IF tok[1] = 45 THEN -DigitsValue(Tail(tok))
    ELSE IF tok[1] = 43 THEN DigitsValue(Tail(tok))
    ELSE DigitsValue(tok)

\* The IEEE-754 double (eight little-endian bytes) of the number q/4 with
\* the given sign, for 0 <= q < 2^21: every such number is a double.
DoubleBytes(neg, q) ==
    LET RECURSIVE Log2(_)
        Log2(n) == IF n <= 1 THEN 0 ELSE 1 + Log2(n \div 2)
        sign == IF neg THEN 128 ELSE 0
    IN  IF q = 0 THEN <<0, 0, 0, 0, 0, 0, 0, sign>>
        ELSE With(Log2(q), LAMBDA e :
             With(<<(q - 2 ^ e) * (2 ^ (20 - e)), e - 2 + 1023>>, LAMBDA v :
                 LET frac   == v[1]
                     biased == v[2]
                 IN  <<0, 0, 0, 0, frac % 256, (frac \div 256) % 256,
                       (biased % 16) * 16 + (frac \div 65536), sign + (biased \div 16)>>))

\* strtod(numstr, ..) on a token [+-]digits.digits whose value is a
\* multiple of 1/4 (the decimal tokens of this model): the conversion is
\* exact.
strtod(tok) ==
    With(IF tok[1] \in {43, 45} THEN Tail(tok) ELSE tok, LAMBDA body :
    With(CHOOSE i \in 1..Len(body) : body[i] = 46, LAMBDA dot :
    With(SubSeq(body, dot + 1, Len(body)), LAMBDA fdig :
    With(4 * DigitsValue(SubSeq(body, 1, dot - 1))
             + ((4 * DigitsValue(fdig)) \div (10 ^ Len(fdig))), LAMBDA q :
        DoubleBytes(tok[1] = 45, q)))))

\* parse_number_or_symbol: nil, a float, an integer or a symbol.
parse_number_or_symbol(input, ptr, symtab) ==
    LET Delimiter(c) == isspace(c) \/ c \in {40, 41, 34, 59}
        RECURSIVE scan(_, _)
        scan(p, f) ==
            IF p > Len(input) \/ Delimiter(input[p]) THEN [f EXCEPT !.p = p]
            ELSE LET c == input[p]
                 IN  With(IF c \in {43, 45} THEN [f EXCEPT !.is_number = f.is_number /\ p = ptr]
                          ELSE IF c = 46 THEN [f EXCEPT !.is_number = f.is_number /\ ~f.has_dot,
                                                        !.has_dot = TRUE]
                          ELSE IF isdigit(c) THEN [f EXCEPT !.has_digit = TRUE]
                          ELSE [f EXCEPT !.is_number = FALSE],
                          LAMBDA g : scan(p + 1, g))
    IN  With(scan(ptr, [p |-> ptr, is_number |-> TRUE, has_dot |-> FALSE, has_digit |-> FALSE]),
             LAMBDA t :
        With(Slice(input, ptr, t.p), LAMBDA tok :
            IF ptr = t.p THEN ParseError("empty atom")
            ELSE IF tok = <<110, 105, 108>>
            THEN ParseResult(t.p, symtab, <<SEXP_TAG_NIL>>, <<0, 0>>)
            ELSE IF t.is_number /\ t.has_digit /\ t.has_dot
            THEN With(strtod(tok), LAMBDA val :
                     ParseResult(t.p, symtab, <<SEXP_TAG_FLOAT>> \o val, FloatHash(val)))
            ELSE IF t.is_number /\ t.has_digit
            THEN With(strtoll(tok), LAMBDA val :
                     ParseResult(t.p, symtab,
                         IF val >= SEXP_SMALLINT_MIN /\ val <= SEXP_SMALLINT_MAX
                         THEN <<SEXP_TAG_SMALLINT + (val + SEXP_SMALLINT_BIAS)>>
                         ELSE <<SEXP_TAG_INTEGER>> \o encode_varint(zigzag_encode(val)),
                         IntegerHash(val)))
            ELSE With(intern_symbol(symtab, tok), LAMBDA sym :
                     ParseResult(t.p, sym[2],
                         <<SEXP_TAG_SYMBOL_REF>> \o encode_varint(sym[1]),
                         sexp_hash_string_with_tag(SEXP_TAG_SYMBOL_REF, tok)))))

\* get_sentry_type_from_tag: the SEntry type of an element's first byte.
get_sentry_type_from_tag(tag_byte) ==
    LET tag == TagOf(tag_byte)
    IN  CASE tag = SEXP_TAG_NIL -> SENTRY_TYPE_NIL
          [] tag \in {SEXP_TAG_SMALLINT, SEXP_TAG_INTEGER} -> SENTRY_TYPE_INTEGER
          [] tag = SEXP_TAG_FLOAT -> SENTRY_TYPE_FLOAT
          [] tag = SEXP_TAG_SYMBOL_REF -> SENTRY_TYPE_SYMBOL
          [] tag \in {SEXP_TAG_SHORT_STRING, SEXP_TAG_LONG_STRING} -> SENTRY_TYPE_STRING
          [] OTHER -> SENTRY_TYPE_LIST

\* SENTRY_MAKE(type, offset) as the four bytes written to the table.
SEntryBytes(type, offset) ==
    <<offset % 256, (offset \div 256) % 256, (offset \div 65536) % 256,
      type * 32 + (offset \div 16777216)>>

\* The bytes of a list with the given children: a small list carries its
\* count in the tag and its payload size, a large one its count, its
\* structural hash and the SEntry table.
ListBytes(count, list_hash, sentries, elements) ==
    IF count <= SEXP_SMALL_LIST_MAX
    THEN <<SEXP_TAG_LIST + count>> \o encode_varint(Len(elements)) \o elements
    ELSE <<SEXP_TAG_LIST>> \o U32Bytes(U32(count)) \o U32Bytes(list_hash)
             \o sentries \o elements

\* The structural hash of a list from its children's hashes: the seed, then
\* each child combined in with its position.
ListHash(child_hashes) ==
    LET RECURSIVE fold(_, _)
        fold(i, list_hash) ==
            IF i > Len(child_hashes) THEN list_hash
            ELSE With(sexp_hash_combine(list_hash, child_hashes[i], i - 1),
                      LAMBDA combined : fold(i + 1, combined))
    IN  With(ListHashSeed(Len(child_hashes)), LAMBDA seed : fold(1, seed))

RECURSIVE sexp_parse_value_with_hash(_, _, _, _)
\* parse_list: ( elem ... ); () is NIL.
parse_list(input, ptr, depth, symtab) ==
    LET RECURSIVE elems(_, _)
        elems(p, acc) ==
            IF p <= Len(input) /\ input[p] # 41
            THEN With(sexp_parse_value_with_hash(input, p, depth + 1, acc.symtab), LAMBDA r :
                     IF r.err # "" THEN [acc EXCEPT !.err = r.err]
                     ELSE With(<<skip_whitespace(input, r.ptr),
                                 [ptr |-> r.ptr, symtab |-> r.symtab, err |-> "",
                                  count |-> acc.count + 1,
                                  elements |-> acc.elements \o r.out,
                                  sentries |-> acc.sentries \o
                                      SEntryBytes(get_sentry_type_from_tag(r.out[1]),
                                                  Len(acc.elements)),
                                  hashes |-> Append(acc.hashes, r.hash)]>>,
                               LAMBDA next : elems(next[1], next[2])))
            ELSE [acc EXCEPT !.ptr = p]
    IN  IF depth >= SEXP_MAX_DEPTH THEN ParseError("sexp nesting depth exceeded")
        ELSE With(skip_whitespace(input, ptr + 1), LAMBDA first :
            IF first <= Len(input) /\ input[first] = 41
            THEN ParseResult(first + 1, symtab, <<SEXP_TAG_NIL>>, <<0, 0>>)
            ELSE With(elems(first, [ptr |-> first, symtab |-> symtab, err |-> "", count |-> 0,
                                    elements |-> <<>>, sentries |-> <<>>, hashes |-> <<>>]),
                      LAMBDA l :
                 IF l.err # "" THEN ParseError(l.err)
                 ELSE IF l.ptr > Len(input) THEN ParseError("unterminated list")
                 ELSE With(ListHash(l.hashes), LAMBDA list_hash :
                          ParseResult(l.ptr + 1, l.symtab,
                              ListBytes(l.count, list_hash, l.sentries, l.elements),
                              list_hash))))

\* sexp_parse_value_with_hash: a list, a string or an atom.
sexp_parse_value_with_hash(input, ptr, depth, symtab) ==
    With(skip_whitespace(input, ptr), LAMBDA p :
        IF p > Len(input) THEN ParseError("unexpected end of input")
        ELSE IF input[p] = 40 THEN parse_list(input, p, depth, symtab)
        ELSE IF input[p] = 34 THEN parse_string(input, p, symtab)
        ELSE parse_number_or_symbol(input, p, symtab))

\* The bytes of a symbol table: its count, then each symbol's length and bytes.
SymtabBytes(symtab) ==
    LET RECURSIVE entries(_)
        entries(i) == IF i > Len(symtab) THEN <<>>
                      ELSE encode_varint(Len(symtab[i])) \o symtab[i] \o entries(i + 1)
    IN  encode_varint(Len(symtab)) \o entries(1)

\* sexp_parse that stops after the root expression and does not look at the
\* rest of the input.
parse_root_only(str) ==
    With(sexp_parse_value_with_hash(str, 1, 0, <<>>), LAMBDA r :
        IF r.err # "" THEN [err |-> r.err, data |-> <<>>]
        ELSE [err |-> "", data |-> <<SEXP_FORMAT_VERSION>> \o SymtabBytes(r.symtab) \o r.out])

\* sexp_parse: [err, data]; the value's bytes are version, symbol table, root.
sexp_parse(str) ==
    With(str, LAMBDA input :
    With(skip_whitespace(input, 1), LAMBDA start :
        IF start > Len(input)
        THEN [err |-> "", data |-> <<SEXP_FORMAT_VERSION, 0, SEXP_TAG_NIL>>]
        ELSE With(sexp_parse_value_with_hash(input, start, 0, <<>>), LAMBDA r :
             IF r.err # "" THEN [err |-> r.err, data |-> <<>>]
             ELSE IF skip_whitespace(input, r.ptr) <= Len(input)
             THEN [err |-> "unexpected characters after s-expression", data |-> <<>>]
             ELSE [err |-> "", data |-> <<SEXP_FORMAT_VERSION>> \o SymtabBytes(r.symtab) \o r.out])))

\* sexp_in: the input function, on a text.
sexp_in(text) == sexp_parse(TextBytes(text))

(***************************************************************************)
(* Reading a value (sexp_io.c, pg_sexp.c).                                 *)
(***************************************************************************)
\* The symbol table that starts after the version byte: [err, symbols, ptr,
\* end]; ptr is the position of the root element, end the position after
\* the last byte.
read_symbol_table(data) ==
    LET end == Len(data) + 1
        RECURSIVE table(_, _, _, _)
        table(i, sym_count, p, symbols) ==
            IF i >= sym_count THEN [err |-> "", symbols |-> symbols, ptr |-> p, end |-> end]
            ELSE With(decode_varint(data, p, end), LAMBDA slen :
                 With(Append(symbols, Slice(data, slen[2], slen[2] + slen[1])), LAMBDA longer :
                     table(i + 1, sym_count, slen[2] + slen[1], longer)))
    IN  With(decode_varint(data, 2, end), LAMBDA cnt : table(0, cnt[1], cnt[2], <<>>))

\* init_read_state_internal: the version check (SEXP_CHECK_VERSION), then
\* the symbol table.  With err set the function has raised the error and
\* the caller does not go on.
init_read_state_internal(data) ==
    IF data[1] > SEXP_FORMAT_VERSION
    THEN [err |-> "sexp format version not supported", symbols |-> <<>>,
          ptr |-> 1, end |-> Len(data) + 1]
    ELSE read_symbol_table(data)

\* A uint32 read as a number (the counts and offsets of the model are small).
LoadCount(d, p) == d[p] + 256 * d[p + 1] + 65536 * d[p + 2] + 16777216 * d[p + 3]

\* SENTRY_GET_OFFSET and the SEntry type of entry idx (0-based) of the
\* table at position sentries.
SEntryOffset(d, sentries, idx) ==
    LET p == sentries + 4 * idx
    IN  d[p] + 256 * d[p + 1] + 65536 * d[p + 2] + 16777216 * (d[p + 3] % 16)
SEntryType(d, sentries, idx) == d[sentries + 4 * idx + 3] \div 32

\* skip_element: the position after the element at ptr.
RECURSIVE skip_element(_, _, _)
skip_element(d, ptr, end) ==
    IF ptr >= end THEN ptr
    ELSE LET byte == d[ptr]
             tag  == TagOf(byte)
             RECURSIVE each(_, _)
             each(i, p) ==
                 IF i = 0 THEN p
                 ELSE With(skip_element(d, p, end), LAMBDA next : each(i - 1, next))
         IN  CASE tag \in {SEXP_TAG_NIL, SEXP_TAG_SMALLINT} -> ptr + 1
               [] tag \in {SEXP_TAG_INTEGER, SEXP_TAG_SYMBOL_REF} ->
                     decode_varint(d, ptr + 1, end)[2]
               [] tag = SEXP_TAG_FLOAT -> ptr + 9
               [] tag = SEXP_TAG_SHORT_STRING -> ptr + 1 + DataOf(byte)
               [] tag = SEXP_TAG_LONG_STRING ->
                     With(decode_varint(d, ptr + 1, end), LAMBDA len : len[2] + len[1])
               [] OTHER ->
                     IF DataOf(byte) = 0
                     THEN With(LoadCount(d, ptr + 1), LAMBDA count :
                              each(count, ptr + 9 + 4 * count))
                     ELSE With(decode_varint(d, ptr + 1, end), LAMBDA size : size[2] + size[1])

\* decode_list_header, called with ptr after the tag byte: the ListHeader
\* (sentries is the position of the SEntry table, 0 for NULL).
decode_list_header(d, ptr, end, tag_byte) ==
    IF DataOf(tag_byte) = 0
    THEN With(LoadCount(d, ptr), LAMBDA count :
             [count |-> count, hash |-> ReadU32(d, ptr + 4), sentries |-> ptr + 8,
              data_start |-> ptr + 8 + 4 * count, is_large |-> TRUE])
    ELSE [count |-> DataOf(tag_byte), hash |-> <<0, 0>>, sentries |-> 0,
          data_start |-> decode_varint(d, ptr, end)[2], is_large |-> FALSE]

\* get_element_bounds: <<elem_start, elem_end>> of child idx (0-based).
get_element_bounds(d, hdr, idx, end) ==
    IF hdr.sentries # 0
    THEN <<hdr.data_start + SEntryOffset(d, hdr.sentries, idx),
           IF idx + 1 < hdr.count
           THEN hdr.data_start + SEntryOffset(d, hdr.sentries, idx + 1)
           ELSE end>>
    ELSE LET RECURSIVE scan(_, _)
             scan(j, p) ==
                 IF j = idx THEN p
                 ELSE With(skip_element(d, p, end), LAMBDA next : scan(j + 1, next))
         IN  With(scan(0, hdr.data_start), LAMBDA start :
                 <<start, skip_element(d, start, end)>>)

\* extract_element_fast: the parent's header (version and symbol table)
\* copied as it is, then the element's bytes.
extract_element_fast(parent, elem_start, elem_end) ==
    SubSeq(parent, 1, init_read_state_internal(parent).ptr - 1)
        \o Slice(parent, elem_start, elem_end)

(***************************************************************************)
(* Equality (pg_sexp.c).                                                   *)
(***************************************************************************)
\* val_a == val_b on two doubles given by their bytes: equal bit patterns
\* that are no NaN, or two zeros of either sign.
DoubleEq(a, b) ==
    LET IsNaN(x) == /\ x[8] % 128 = 127
                    /\ x[7] >= 240
                    /\ (x[7] % 16 # 0 \/ \E i \in 1..6 : x[i] # 0)
    IN  \/ IsZeroDouble(a) /\ IsZeroDouble(b)
        \/ a = b /\ ~IsNaN(a)

\* The cursor after the header of the list whose tag byte is at ptr - 1,
\* and the list's count, as elements_equal_recursive decodes them:
\* <<count, ptr>>.
ListCountAndData(d, ptr, end, byte) ==
    IF DataOf(byte) = 0
    THEN <<LoadCount(d, ptr), ptr + 8 + 4 * LoadCount(d, ptr)>>
    ELSE <<DataOf(byte), decode_varint(d, ptr, end)[2]>>

\* skip_element called n times from ptr.
RECURSIVE SkipElements(_, _, _, _)
SkipElements(d, ptr, end, n) ==
    IF n <= 0 THEN ptr
    ELSE With(skip_element(d, ptr, end), LAMBDA next : SkipElements(d, next, end, n - 1))

\* elements_equal_recursive on state_a = (a, sa, pa, ea) and state_b =
\* (b, sb, pb, eb): data, symbol table, ptr, end.  The result is
\* [eq, pa, pb]: the answer and the two cursors after the call.  Two symbols
\* are compared by hash, length and bytes; the hash is a function of the
\* bytes, so that is the comparison of their bytes.
RECURSIVE elements_equal_recursive(_, _, _, _, _, _, _, _)
elements_equal_recursive(a, sa, pa, ea, b, sb, pb, eb) ==
    IF pa >= ea \/ pb >= eb THEN [eq |-> pa >= ea /\ pb >= eb, pa |-> pa, pb |-> pb]
    ELSE
    LET byte_a == a[pa]
        byte_b == b[pb]
        tag    == TagOf(byte_a)
        R(eq, qa, qb) == [eq |-> eq, pa |-> qa, pb |-> qb]
        RECURSIVE children(_, _, _, _)
        children(i, count, qa, qb) ==
            IF i >= count THEN R(TRUE, qa, qb)
            ELSE With(elements_equal_recursive(a, sa, qa, ea, b, sb, qb, eb), LAMBDA r :
                     IF r.eq THEN children(i + 1, count, r.pa, r.pb)
                     ELSE R(FALSE, SkipElements(a, r.pa, ea, count - i - 1),
                                   SkipElements(b, r.pb, eb, count - i - 1)))
    IN  IF tag # TagOf(byte_b) THEN R(FALSE, pa + 1, pb + 1)
        ELSE CASE tag = SEXP_TAG_NIL -> R(TRUE, pa + 1, pb + 1)
          [] tag = SEXP_TAG_SMALLINT -> R(byte_a = byte_b, pa + 1, pb + 1)
          [] tag = SEXP_TAG_INTEGER ->
                LET val_a == decode_varint(a, pa + 1, ea)
                    val_b == decode_varint(b, pb + 1, eb)
                IN  R(val_a[1] = val_b[1], val_a[2], val_b[2])
          [] tag = SEXP_TAG_FLOAT ->
                R(DoubleEq(Slice(a, pa + 1, pa + 9), Slice(b, pb + 1, pb + 9)), pa + 9, pb + 9)
          [] tag = SEXP_TAG_SYMBOL_REF ->
                With(<<decode_varint(a, pa + 1, ea), decode_varint(b, pb + 1, eb)>>, LAMBDA idx :
                    R(/\ idx[1][1] < Len(sa)
                      /\ idx[2][1] < Len(sb)
                      /\ sa[idx[1][1] + 1] = sb[idx[2][1] + 1], idx[1][2], idx[2][2]))
          [] tag = SEXP_TAG_SHORT_STRING ->
                LET len_a == DataOf(byte_a)
                    len_b == DataOf(byte_b)
                IN  R(/\ len_a = len_b
                      /\ Slice(a, pa + 1, pa + 1 + len_a) = Slice(b, pb + 1, pb + 1 + len_b),
                      pa + 1 + len_a, pb + 1 + len_b)
          [] tag = SEXP_TAG_LONG_STRING ->
                With(<<decode_varint(a, pa + 1, ea), decode_varint(b, pb + 1, eb)>>, LAMBDA len :
                    R(/\ len[1][1] = len[2][1]
                      /\ Slice(a, len[1][2], len[1][2] + len[1][1])
                            = Slice(b, len[2][2], len[2][2] + len[2][1]),
                      len[1][2] + len[1][1], len[2][2] + len[2][1]))
          [] OTHER ->
                With(<<ListCountAndData(a, pa + 1, ea, byte_a),
                       ListCountAndData(b, pb + 1, eb, byte_b)>>, LAMBDA l :
                    IF l[1][1] # l[2][1]
                    THEN R(FALSE, SkipElements(a, l[1][2], ea, l[1][1]),
                                  SkipElements(b, l[2][2], eb, l[2][1]))
                    ELSE children(0, l[1][1], l[1][2], l[2][2]))

\* sexp_equal with no comparison of the bytes before the walk.
sexp_equal_lockstep_only(a, b) ==
    With(<<init_read_state_internal(a), init_read_state_internal(b)>>, LAMBDA state :
        elements_equal_recursive(a, state[1].symbols, state[1].ptr, state[1].end,
                                 b, state[2].symbols, state[2].ptr, state[2].end).eq)

\* sexp_equal: equal bytes, or equal element by element.
sexp_equal(a, b) ==
    \/ a = b
    \/ With(<<init_read_state_internal(a), init_read_state_internal(b)>>, LAMBDA state :
           elements_equal_recursive(a, state[1].symbols, state[1].ptr, state[1].end,
                                    b, state[2].symbols, state[2].ptr, state[2].end).eq)

(***************************************************************************)
(* car, cdr, nth, length (pg_sexp.c).  An operation that returns a value   *)
(* answers [status, data]: "ok" with the value, "null" for the C NULL (SQL *)
(* NULL), "error" for a raised error.                                      *)
(***************************************************************************)
Ok(data) == [status |-> "ok", data |-> data]
Null == [status |-> "null", data |-> <<>>]
Error(code) == [status |-> "error", data |-> <<>>, code |-> code]

\* sexp_get_nil_singleton: the NIL value.
sexp_get_nil_singleton == <<SEXP_FORMAT_VERSION, 0, SEXP_TAG_NIL>>

\* decode_list_car_fast, called with ptr after the tag byte:
\* <<count, position of the first element (0 for NULL)>>.
decode_list_car_fast(d, ptr, end, tag_byte) ==
    IF DataOf(tag_byte) = 0
    THEN LET cnt32 == LoadCount(d, ptr)
         IN  <<cnt32, IF cnt32 = 0 THEN 0
                      ELSE ptr + 8 + 4 * cnt32 + SEntryOffset(d, ptr + 8, 0)>>
    ELSE <<DataOf(tag_byte), decode_varint(d, ptr, end)[2]>>

\* sexp_car with no type check: an atom is answered as its own first element.
car_of_atom_is_atom(sexp) ==
    With(init_read_state_internal(sexp), LAMBDA state :
        IF TagOf(sexp[state.ptr]) = SEXP_TAG_NIL THEN Null ELSE Ok(sexp))

\* sexp_car: the first element of a list.
sexp_car(sexp) ==
    With(init_read_state_internal(sexp), LAMBDA state :
        LET byte == sexp[state.ptr]
        IN  IF state.err # "" THEN Error("ERRCODE_DATA_CORRUPTED")
            ELSE IF state.ptr >= state.end THEN Null
            ELSE IF TagOf(byte) = SEXP_TAG_NIL THEN Null
            ELSE IF TagOf(byte) # SEXP_TAG_LIST THEN Error("ERRCODE_DATATYPE_MISMATCH")
            ELSE With(decode_list_car_fast(sexp, state.ptr + 1, state.end, byte), LAMBDA first :
                     IF first[1] = 0 \/ first[2] = 0 THEN Null
                     ELSE Ok(extract_element_fast(sexp, first[2],
                                                  skip_element(sexp, first[2], state.end)))))

\* sexp_cdr that drops no element: the list itself is answered.
cdr_keeps_first(sexp) == Ok(sexp)

\* dummy_hash, the structural hash sexp_cdr writes into a large list.
dummy_hash == <<0, 0>>

\* sexp_cdr: a new list of the elements 1 .. count-1, with the parent's
\* symbol table written again entry by entry.
sexp_cdr(sexp) ==
    With(init_read_state_internal(sexp), LAMBDA state :
        LET byte == sexp[state.ptr]
            Rest(hdr) ==
                LET new_count == hdr.count - 1
                    RECURSIVE collect(_, _)
                    collect(i, elem_buf) ==
                        IF i >= hdr.count THEN elem_buf
                        ELSE With(get_element_bounds(sexp, hdr, i, state.end), LAMBDA bounds :
                             With(elem_buf \o Slice(sexp, bounds[1], bounds[2]), LAMBDA longer :
                                 collect(i + 1, longer)))
                    NewList(elem_buf) ==
                        LET RECURSIVE new_sentries(_, _, _)
                            new_sentries(i, scan_ptr, written) ==
                                IF i >= new_count THEN written
                                ELSE With(<<skip_element(elem_buf, scan_ptr, Len(elem_buf) + 1),
                                            written \o SEntryBytes(
                                                get_sentry_type_from_tag(elem_buf[scan_ptr]),
                                                scan_ptr - 1)>>,
                                          LAMBDA next : new_sentries(i + 1, next[1], next[2]))
                        IN  IF new_count <= SEXP_SMALL_LIST_MAX
                            THEN <<SEXP_TAG_LIST + new_count>> \o encode_varint(Len(elem_buf))
                                     \o elem_buf
                            ELSE <<SEXP_TAG_LIST>> \o U32Bytes(U32(new_count))
                                     \o U32Bytes(dummy_hash) \o new_sentries(0, 1, <<>>)
                                     \o elem_buf
                IN  IF hdr.count <= 1 THEN Ok(sexp_get_nil_singleton)
                    ELSE With(collect(1, <<>>), LAMBDA elem_buf :
                             Ok(<<SEXP_FORMAT_VERSION>> \o SymtabBytes(state.symbols)
                                    \o NewList(elem_buf)))
        IN  IF state.err # "" THEN Error("ERRCODE_DATA_CORRUPTED")
            ELSE IF state.ptr >= state.end THEN Null
            ELSE IF TagOf(byte) = SEXP_TAG_NIL THEN Null
            ELSE IF TagOf(byte) # SEXP_TAG_LIST THEN Error("ERRCODE_DATATYPE_MISMATCH")
            ELSE With(decode_list_header(sexp, state.ptr + 1, state.end, byte),
                      LAMBDA hdr : Rest(hdr)))

\* sexp_length: 0 for NIL, 1 for an atom, the count of a list.
sexp_length(sexp) ==
    With(init_read_state_internal(sexp), LAMBDA state :
        LET byte == sexp[state.ptr]
        IN  IF state.ptr >= state.end \/ TagOf(byte) = SEXP_TAG_NIL THEN 0
            ELSE IF TagOf(byte) # SEXP_TAG_LIST THEN 1
            ELSE IF DataOf(byte) = 0 THEN LoadCount(sexp, state.ptr + 1)
            ELSE DataOf(byte))

\* sexp_nth: element n (0-based) of a list; an atom is its own element 0.
sexp_nth(sexp, n) ==
    IF n < 0 THEN Null
    ELSE With(init_read_state_internal(sexp), LAMBDA state :
        LET byte == sexp[state.ptr]
        IN  IF state.err # "" THEN Error("ERRCODE_DATA_CORRUPTED")
            ELSE IF state.ptr >= state.end THEN Null
            ELSE IF TagOf(byte) = SEXP_TAG_NIL THEN Null
            ELSE IF TagOf(byte) # SEXP_TAG_LIST THEN (IF n = 0 THEN Ok(sexp) ELSE Null)
            ELSE With(decode_list_header(sexp, state.ptr + 1, state.end, byte), LAMBDA hdr :
                     IF n >= hdr.count THEN Null
                     ELSE With(get_element_bounds(sexp, hdr, n, state.end), LAMBDA bounds :
                              Ok(extract_element_fast(sexp, bounds[1], bounds[2])))))

(***************************************************************************)
(* The semantic hash (pg_sexp.c).                                          *)
(***************************************************************************)
\* sexp_element_hash: a small list combines its children's hashes, a large
\* list answers the hash stored in its header.
RECURSIVE sexp_element_hash(_, _, _, _)
sexp_element_hash(d, ptr, end, symbols) ==
    IF ptr >= end THEN <<0, 0>>
    ELSE
    LET byte == d[ptr]
        tag  == TagOf(byte)
        RECURSIVE children(_, _, _, _)
        children(i, count, p, list_hash) ==
            IF i >= count THEN list_hash
            ELSE With(sexp_element_hash(d, p, end, symbols), LAMBDA child_hash :
                 With(<<skip_element(d, p, end), sexp_hash_combine(list_hash, child_hash, i)>>,
                      LAMBDA next : children(i + 1, count, next[1], next[2])))
    IN  CASE tag = SEXP_TAG_NIL -> <<0, 0>>
          [] tag = SEXP_TAG_SMALLINT -> IntegerHash(DataOf(byte) - SEXP_SMALLINT_BIAS)
          [] tag = SEXP_TAG_INTEGER ->
                IntegerHash(zigzag_decode(decode_varint(d, ptr + 1, end)[1]))
          [] tag = SEXP_TAG_FLOAT -> FloatHash(Slice(d, ptr + 1, ptr + 9))
          [] tag = SEXP_TAG_SYMBOL_REF ->
                LET idx == decode_varint(d, ptr + 1, end)[1]
                IN  IF idx < Len(symbols)
                    THEN sexp_hash_string_with_tag(SEXP_TAG_SYMBOL_REF, symbols[idx + 1])
                    ELSE <<0, 0>>
          [] tag = SEXP_TAG_SHORT_STRING ->
                sexp_hash_string_with_tag(SEXP_TAG_SHORT_STRING,
                                          Slice(d, ptr + 1, ptr + 1 + DataOf(byte)))
          [] tag = SEXP_TAG_LONG_STRING ->
                With(decode_varint(d, ptr + 1, end), LAMBDA len :
                    sexp_hash_string_with_tag(SEXP_TAG_SHORT_STRING,
                                              Slice(d, len[2], len[2] + len[1])))
          [] OTHER ->
                IF DataOf(byte) = 0 THEN ReadU32(d, ptr + 5)
                ELSE With(<<decode_varint(d, ptr + 1, end)[2], ListHashSeed(DataOf(byte))>>,
                          LAMBDA start : children(0, DataOf(byte), start[1], start[2]))

\* sexp_compute_hash: the hash of a value's root element (the SQL sexp_hash).
sexp_compute_hash(sexp) ==
    With(init_read_state_internal(sexp), LAMBDA state :
        sexp_element_hash(sexp, state.ptr, state.end, state.symbols))

(***************************************************************************)
(* Bloom signatures (pg_sexp.h, pg_sexp.c).  A 64-bit signature is the set *)
(* of its bit positions that are 1.                                        *)
(***************************************************************************)
BLOOM_K == 4

\* bloom_compute_sig: the bits (rotl32(hash, 8 i) & 63) for i < BLOOM_K.
bloom_compute_sig(elem_hash) ==
    With(elem_hash, LAMBDA h : {rotl32(h, i * 8)[2] % 64 : i \in 0..(BLOOM_K - 1)})

\* bloom_may_contain: (needle_bloom & ~container_bloom) == 0.
bloom_may_contain(container_bloom, needle_bloom) ==
    needle_bloom \ container_bloom = {}

\* sexp_element_bloom: an atom's signature comes from its hash, a list's is
\* the union of its children's and of the signature of (count, list tag).
RECURSIVE sexp_element_bloom(_, _, _, _)
sexp_element_bloom(d, ptr, end, symbols) ==
    IF ptr >= end THEN {}
    ELSE
    LET byte == d[ptr]
        tag  == TagOf(byte)
        RECURSIVE small(_, _, _)
        small(i, p, sig) ==
            IF i >= DataOf(byte) THEN sig
            ELSE With(<<skip_element(d, p, end), sig \cup sexp_element_bloom(d, p, end, symbols)>>,
                      LAMBDA next : small(i + 1, next[1], next[2]))
        Large(actual_count) ==
            LET data_start == ptr + 9 + 4 * actual_count
                Child(i) ==
                    With(<<data_start + SEntryOffset(d, ptr + 9, i),
                           IF i + 1 < actual_count
                           THEN data_start + SEntryOffset(d, ptr + 9, i + 1)
                           ELSE end>>,
                         LAMBDA elem : sexp_element_bloom(d, elem[1], elem[2], symbols))
            IN  UNION {Child(i) : i \in 0..(actual_count - 1)}
                    \cup bloom_compute_sig(ListHashSeed(actual_count))
    IN  CASE tag = SEXP_TAG_NIL -> bloom_compute_sig(sexp_hash_uint32(SEXP_TAG_NIL))
          [] tag = SEXP_TAG_SYMBOL_REF ->
                IF decode_varint(d, ptr + 1, end)[1] < Len(symbols)
                THEN bloom_compute_sig(sexp_element_hash(d, ptr, end, symbols))
                ELSE {}
          [] tag = SEXP_TAG_LIST ->
                IF DataOf(byte) = 0
                THEN With(LoadCount(d, ptr + 1), LAMBDA actual_count : Large(actual_count))
                ELSE With(bloom_compute_sig(ListHashSeed(DataOf(byte))), LAMBDA sig :
                         small(0, decode_varint(d, ptr + 1, end)[2], sig))
          [] OTHER -> bloom_compute_sig(sexp_element_hash(d, ptr, end, symbols))

\* sexp_compute_bloom: the signature of a value's root element.
sexp_compute_bloom(sexp) ==
    With(init_read_state_internal(sexp), LAMBDA state :
        sexp_element_bloom(sexp, state.ptr, state.end, state.symbols))

(***************************************************************************)
(* Structural containment (pg_sexp.c).                                     *)
(***************************************************************************)
\* atom_compare_direct: two atoms compared in place.  Small and full
\* integers compare by value; floats compare by their eight bytes.
atom_compare_direct(a, a_syms, a_ptr, a_end, b, b_syms, b_ptr, b_end) ==
    IF a_ptr >= a_end \/ b_ptr >= b_end THEN FALSE
    ELSE
    LET byte_a == a[a_ptr]
        byte_b == b[b_ptr]
        tag_a  == TagOf(byte_a)
        tag_b  == TagOf(byte_b)
        IntVal(d, p, e) ==
            IF TagOf(d[p]) = SEXP_TAG_SMALLINT THEN DataOf(d[p]) - SEXP_SMALLINT_BIAS
            ELSE zigzag_decode(decode_varint(d, p + 1, e)[1])
        len_a == decode_varint(a, a_ptr + 1, a_end)
        len_b == decode_varint(b, b_ptr + 1, b_end)
    IN  IF tag_a # tag_b
        THEN /\ tag_a \in {SEXP_TAG_SMALLINT, SEXP_TAG_INTEGER}
             /\ tag_b \in {SEXP_TAG_SMALLINT, SEXP_TAG_INTEGER}
             /\ IntVal(a, a_ptr, a_end) = IntVal(b, b_ptr, b_end)
        ELSE CASE tag_a = SEXP_TAG_NIL -> TRUE
               [] tag_a = SEXP_TAG_SMALLINT -> byte_a = byte_b
               [] tag_a = SEXP_TAG_INTEGER -> len_a[1] = len_b[1]
               [] tag_a = SEXP_TAG_FLOAT ->
                     Slice(a, a_ptr + 1, a_ptr + 9) = Slice(b, b_ptr + 1, b_ptr + 9)
               [] tag_a = SEXP_TAG_SYMBOL_REF ->
                     /\ len_a[1] < Len(a_syms)
                     /\ len_b[1] < Len(b_syms)
                     /\ a_syms[len_a[1] + 1] = b_syms[len_b[1] + 1]
               [] tag_a = SEXP_TAG_SHORT_STRING ->
                     /\ DataOf(byte_a) = DataOf(byte_b)
                     /\ Slice(a, a_ptr + 1, a_ptr + 1 + DataOf(byte_a))
                           = Slice(b, b_ptr + 1, b_ptr + 1 + DataOf(byte_b))
               [] tag_a = SEXP_TAG_LONG_STRING ->
                     /\ len_a[1] = len_b[1]
                     /\ Slice(a, len_a[2], len_a[2] + len_a[1])
                           = Slice(b, len_b[2], len_b[2] + len_b[1])
               [] OTHER -> FALSE

\* contains_fast_scan: the element at container_ptr matches, or the scan
\* recurses into the children that are lists or have the element's type.
RECURSIVE contains_fast_scan(_, _, _, _, _, _, _, _, _, _)
contains_fast_scan(c, c_syms, container_ptr, container_end, e, e_syms, elem_ptr, elem_end, elem_first_byte, elem_stype) ==
    IF container_ptr >= container_end THEN FALSE
    ELSE
    LET byte == c[container_ptr]
        Scan(child_ptr, child_end) ==
            contains_fast_scan(c, c_syms, child_ptr, child_end,
                               e, e_syms, elem_ptr, elem_end, elem_first_byte, elem_stype)
        sentries == container_ptr + 9
        Large(count) ==
            \E i \in 0..(count - 1) :
                /\ SEntryType(c, sentries, i) \in {elem_stype, SENTRY_TYPE_LIST}
                /\ \E child \in {<<sentries + 4 * count + SEntryOffset(c, sentries, i),
                                   IF i + 1 < count
                                   THEN sentries + 4 * count + SEntryOffset(c, sentries, i + 1)
                                   ELSE container_end>>} :
                       Scan(child[1], child[2])
        Small(data_start, data_end) ==
            LET RECURSIVE small(_, _)
                small(i, p) ==
                    /\ i < DataOf(byte)
                    /\ p < data_end
                    /\ \E child_end_ptr \in {skip_element(c, p, data_end)} :
                          \/ /\ get_sentry_type_from_tag(c[p]) \in {elem_stype, SENTRY_TYPE_LIST}
                             /\ Scan(p, child_end_ptr)
                          \/ small(i + 1, child_end_ptr)
            IN  small(0, data_start)
    IN  \/ /\ get_sentry_type_from_tag(byte) = elem_stype
           /\ byte = elem_first_byte
           /\ IF elem_stype # SENTRY_TYPE_LIST
              THEN atom_compare_direct(c, c_syms, container_ptr, container_end,
                                       e, e_syms, elem_ptr, elem_end)
              ELSE elements_equal_recursive(c, c_syms, container_ptr, container_end,
                                            e, e_syms, elem_ptr, elem_end).eq
        \/ /\ TagOf(byte) = SEXP_TAG_LIST
           /\ IF DataOf(byte) = 0
              THEN \E count \in {LoadCount(c, container_ptr + 1)} : Large(count)
              ELSE \E size \in {decode_varint(c, container_ptr + 1, container_end)} :
                      Small(size[2], IF size[2] + size[1] > container_end THEN container_end
                                     ELSE size[2] + size[1])

\* sexp_contains that never compares the container itself with the element:
\* false on the same bytes, the Bloom answer otherwise.
contains_skips_root(container, element) ==
    /\ container # element
    /\ bloom_may_contain(sexp_compute_bloom(container), sexp_compute_bloom(element))

\* sexp_contains: the Bloom pre-check, then the scan.
sexp_contains(container, element) ==
    With(<<init_read_state_internal(container), init_read_state_internal(element)>>,
         LAMBDA state :
        LET container_state == state[1]
            elem_state      == state[2]
        IN  /\ container_state.ptr < container_state.end
            /\ bloom_may_contain(
                   sexp_element_bloom(container, container_state.ptr, container_state.end,
                                      container_state.symbols),
                   sexp_element_bloom(element, elem_state.ptr, elem_state.end,
                                      elem_state.symbols))
            /\ contains_fast_scan(container, container_state.symbols,
                                  container_state.ptr, container_state.end,
                                  element, elem_state.symbols, elem_state.ptr, elem_state.end,
                                  element[elem_state.ptr],
                                  get_sentry_type_from_tag(element[elem_state.ptr])))

(***************************************************************************)
(* Key-based containment (pg_sexp.c).                                      *)
(***************************************************************************)
\* The tag pair passes the quick type rejection: equal tags, or two integer
\* tags of either width.
SameAtomKind(container_tag, needle_tag) ==
    \/ container_tag = needle_tag
    \/ /\ container_tag \in {SEXP_TAG_SMALLINT, SEXP_TAG_INTEGER}
       /\ needle_tag \in {SEXP_TAG_SMALLINT, SEXP_TAG_INTEGER}

RECURSIVE key_contains_recursive(_, _, _, _, _, _, _, _)

\* element_key_matches: an atom needle matches an equal atom, a list needle
\* matches a list that key-contains it.
element_key_matches(c, c_syms, container_ptr, container_end, n, n_syms, needle_ptr, needle_end) ==
    IF container_ptr >= container_end \/ needle_ptr >= needle_end THEN FALSE
    ELSE
    LET container_tag == TagOf(c[container_ptr])
        needle_tag    == TagOf(n[needle_ptr])
    IN  IF needle_tag # SEXP_TAG_LIST
        THEN /\ SameAtomKind(container_tag, needle_tag)
             /\ elements_equal_recursive(c, c_syms, container_ptr, container_end,
                                         n, n_syms, needle_ptr, needle_end).eq
        ELSE /\ container_tag = SEXP_TAG_LIST
             /\ key_contains_recursive(c, c_syms, container_ptr, container_end,
                                       n, n_syms, needle_ptr, needle_end)

\* key_contains_recursive: both are lists, the heads are equal and, for each
\* element ni of the needle's tail, the scan over the whole container tail
\* finds an element that matches it.
key_contains_recursive(c, c_syms, container_ptr, container_end, n, n_syms, needle_ptr, needle_end) ==
    IF container_ptr >= container_end \/ needle_ptr >= needle_end THEN FALSE
    ELSE IF TagOf(c[container_ptr]) # SEXP_TAG_LIST \/ TagOf(n[needle_ptr]) # SEXP_TAG_LIST
    THEN FALSE
    ELSE
    With(<<decode_list_header(c, container_ptr + 1, container_end, c[container_ptr]),
           decode_list_header(n, needle_ptr + 1, needle_end, n[needle_ptr])>>, LAMBDA hdr :
        LET chdr == hdr[1]
            nhdr == hdr[2]
            HeadsEqual ==
                \E c_head \in {get_element_bounds(c, chdr, 0, container_end)} :
                \E n_head \in {get_element_bounds(n, nhdr, 0, needle_end)} :
                    elements_equal_recursive(c, c_syms, c_head[1], c_head[2],
                                             n, n_syms, n_head[1], n_head[2]).eq
            found(ni) ==
                \E nb \in {get_element_bounds(n, nhdr, ni, needle_end)} :
                \E ci \in 1..(chdr.count - 1) :
                \E cb \in {get_element_bounds(c, chdr, ci, container_end)} :
                    /\ \/ TagOf(n[nb[1]]) = SEXP_TAG_LIST
                       \/ SameAtomKind(TagOf(c[cb[1]]), TagOf(n[nb[1]]))
                    /\ element_key_matches(c, c_syms, cb[1], cb[2], n, n_syms, nb[1], nb[2])
        IN  IF nhdr.count = 0 THEN TRUE
            ELSE IF chdr.count < nhdr.count THEN FALSE
            ELSE IF ~HeadsEqual THEN FALSE
            ELSE \A ni \in 1..(nhdr.count - 1) : found(ni))

\* contains_key_search: the needle matches at container_ptr, or the search
\* recurses into the children that can hold it.
RECURSIVE contains_key_search(_, _, _, _, _, _, _, _, _)
contains_key_search(c, c_syms, container_ptr, container_end, n, n_syms, needle_ptr, needle_end, needle_tag) ==
    IF container_ptr >= container_end THEN FALSE
    ELSE
    LET container_byte == c[container_ptr]
        container_tag  == TagOf(container_byte)
        Search(hdr, i) ==
            \E b \in {get_element_bounds(c, hdr, i, container_end)} :
                contains_key_search(c, c_syms, b[1], b[2],
                                    n, n_syms, needle_ptr, needle_end, needle_tag)
        Filter(hdr, i) ==
            IF hdr.sentries # 0
            THEN LET child_stype == SEntryType(c, hdr.sentries, i)
                 IN  \/ child_stype = SENTRY_TYPE_LIST
                     \/ /\ needle_tag # SEXP_TAG_LIST
                        /\ child_stype = get_sentry_type_from_tag(needle_tag)
            ELSE LET child_tag == TagOf(c[get_element_bounds(c, hdr, i, container_end)[1]])
                 IN  \/ child_tag = SEXP_TAG_LIST
                     \/ /\ needle_tag # SEXP_TAG_LIST
                        /\ SameAtomKind(child_tag, needle_tag)
    IN  \/ /\ needle_tag # SEXP_TAG_LIST
           /\ SameAtomKind(container_tag, needle_tag)
           /\ atom_compare_direct(c, c_syms, container_ptr, container_end,
                                  n, n_syms, needle_ptr, needle_end)
        \/ /\ needle_tag = SEXP_TAG_LIST
           /\ container_tag = SEXP_TAG_LIST
           /\ key_contains_recursive(c, c_syms, container_ptr, container_end,
                                     n, n_syms, needle_ptr, needle_end)
        \/ /\ container_tag = SEXP_TAG_LIST
           /\ \E hdr \in {decode_list_header(c, container_ptr + 1, container_end,
                                             container_byte)} :
                 \E i \in 0..(hdr.count - 1) : Filter(hdr, i) /\ Search(hdr, i)

\* sexp_contains_key: the Bloom pre-check, then the search.
sexp_contains_key(container, needle) ==
    With(<<init_read_state_internal(container), init_read_state_internal(needle)>>,
         LAMBDA state :
        LET container_state == state[1]
            needle_state    == state[2]
        IN  /\ container_state.ptr < container_state.end
            /\ needle_state.ptr < needle_state.end
            /\ bloom_may_contain(
                   sexp_element_bloom(container, container_state.ptr, container_state.end,
                                      container_state.symbols),
                   sexp_element_bloom(needle, needle_state.ptr, needle_state.end,
                                      needle_state.symbols))
            /\ contains_key_search(container, container_state.symbols,
                                   container_state.ptr, container_state.end,
                                   needle, needle_state.symbols,
                                   needle_state.ptr, needle_state.end,
                                   TagOf(needle[needle_state.ptr])))

(***************************************************************************)
(* Printing (sexp_io.c).                                                   *)
(***************************************************************************)
\* appendStringInfo(buf, "%d" / "%lld", val): the decimal text of an integer.
DecimalText(val) ==
    LET RECURSIVE digits(_)
        digits(n) == IF n < 10 THEN <<48 + n>> ELSE Append(digits(n \div 10), 48 + (n % 10))
    IN  IF val < 0 THEN <<45>> \o digits(-val) ELSE digits(val)

\* appendStringInfo(buf, "%.17g", val) on a finite double that is a multiple
\* of 1/4 below 2^19: the shortest exact decimal, with no decimal point when
\* the value is whole, and the sign of a negative zero kept.
FormatDouble(b) ==
    LET neg    == b[8] >= 128
        biased == (b[8] % 128) * 16 + (b[7] \div 16)
        frac   == (b[7] % 16) * 65536 + b[6] * 256 + b[5]
        e      == biased - 1023 + 2
        Tail4(q) == CASE q % 4 = 0 -> <<>>
                      [] q % 4 = 1 -> <<46, 50, 53>>
                      [] q % 4 = 2 -> <<46, 53>>
                      [] OTHER     -> <<46, 55, 53>>
    IN  With(IF IsZeroDouble(b) THEN 0 ELSE 2 ^ e + (frac \div (2 ^ (20 - e))), LAMBDA q :
            (IF neg THEN <<45>> ELSE <<>>) \o DecimalText(q \div 4) \o Tail4(q))

\* output_element: <<text, ptr>>, the bytes appended to buf and the cursor
\* after the element.
RECURSIVE output_element(_, _, _, _)
output_element(d, ptr, end, symbols) ==
    IF ptr >= end THEN <<<<40, 41>>, ptr>>
    ELSE
    LET byte == d[ptr]
        tag  == TagOf(byte)
        Escaped(c) == CASE c = 10 -> <<92, 110>>
                        [] c = 9  -> <<92, 116>>
                        [] c = 13 -> <<92, 114>>
                        [] c = 92 -> <<92, 92>>
                        [] c = 34 -> <<92, 34>>
                        [] OTHER  -> <<c>>
        RECURSIVE string(_, _, _, _)
        string(i, slen, p, buf) ==
            IF i >= slen \/ p >= end THEN <<Append(buf, 34), p>>
            ELSE With(buf \o Escaped(d[p]), LAMBDA longer : string(i + 1, slen, p + 1, longer))
        RECURSIVE elements(_, _, _, _)
        elements(i, count, p, buf) ==
            IF i >= count THEN <<Append(buf, 41), p>>
            ELSE With(output_element(d, p, end, symbols), LAMBDA one :
                 With(buf \o (IF i > 0 THEN <<32>> ELSE <<>>) \o one[1], LAMBDA longer :
                     elements(i + 1, count, one[2], longer)))
    IN  CASE tag = SEXP_TAG_NIL -> <<<<40, 41>>, ptr + 1>>
          [] tag = SEXP_TAG_SMALLINT ->
                <<DecimalText(DataOf(byte) - SEXP_SMALLINT_BIAS), ptr + 1>>
          [] tag = SEXP_TAG_INTEGER ->
                With(decode_varint(d, ptr + 1, end), LAMBDA encoded :
                    <<DecimalText(zigzag_decode(encoded[1])), encoded[2]>>)
          [] tag = SEXP_TAG_FLOAT ->
                With(Slice(d, ptr + 1, ptr + 9), LAMBDA val :
                    IF val[8] % 128 = 127 /\ val[7] >= 240
                    THEN IF val[7] % 16 # 0 \/ \E i \in 1..6 : val[i] # 0
                         THEN <<<<110, 97, 110>>, ptr + 9>>
                         ELSE <<(IF val[8] >= 128 THEN <<45>> ELSE <<>>) \o <<105, 110, 102>>,
                                ptr + 9>>
                    ELSE <<FormatDouble(val), ptr + 9>>)
          [] tag = SEXP_TAG_SYMBOL_REF ->
                With(decode_varint(d, ptr + 1, end), LAMBDA idx :
                    <<IF idx[1] < Len(symbols) THEN symbols[idx[1] + 1]
                      ELSE TextBytes(<<"?", "i", "n", "v", "a", "l", "i", "d", "-",
                                       "s", "y", "m", "b", "o", "l", "?">>),
                      idx[2]>>)
          [] tag = SEXP_TAG_SHORT_STRING -> string(0, DataOf(byte), ptr + 1, <<34>>)
          [] tag = SEXP_TAG_LONG_STRING ->
                With(decode_varint(d, ptr + 1, end), LAMBDA slen :
                    string(0, slen[1], slen[2], <<34>>))
          [] OTHER ->
                IF DataOf(byte) = 0
                THEN With(LoadCount(d, ptr + 1), LAMBDA count :
                         elements(0, count, ptr + 9 + 4 * count, <<40>>))
                ELSE With(decode_varint(d, ptr + 1, end)[2], LAMBDA data_start :
                         elements(0, DataOf(byte), data_start, <<40>>))

\* sexp_to_cstring: the text of a value (the output function).
sexp_to_cstring(sexp) ==
    With(init_read_state_internal(sexp), LAMBDA state :
        output_element(sexp, state.ptr, state.end, state.symbols)[1])

(***************************************************************************)
(* The GIN operator class (sexp_gin.c).  A key is a uint32.                *)
(***************************************************************************)
SEXP_GIN_CONTAINS_STRATEGY == 7
SEXP_GIN_CONTAINED_STRATEGY == 8
SEXP_GIN_CONTAINS_KEY_STRATEGY == 9

\* The key type markers 0x01000000 .. 0x07000000.
KEY_TYPE_ATOM == 16777216
KEY_TYPE_LIST_HEAD == 33554432
KEY_TYPE_SYMBOL == 50331648
KEY_TYPE_STRING == 67108864
KEY_TYPE_INTEGER == 83886080
KEY_TYPE_FLOAT == 100663296
KEY_TYPE_PAIR == 117440512

MAX_GIN_KEYS == 1024

\* hash_combine32(seed, hash) = seed ^ (hash + 0x9e3779b9 + (seed << 6) + (seed >> 2)).
hash_combine32(seed0, hash0) ==
    With(<<seed0, hash0>>, LAMBDA v :
        U32Xor(v[1], U32Add(U32Add(U32Add(v[2], <<40503, 31161>>), U32Shl(v[1], 6)),
                            U32Shr(v[1], 2))))

\* make_atom_key: (type_marker ^ value_hash) | 0x80000000.
make_atom_key(type_marker, value_hash) ==
    With(U32Xor(U32(type_marker), value_hash), LAMBDA combined :
        <<(combined[1] % 32768) + 32768, combined[2]>>)

\* add_key with no set of the keys seen: a key may be appended twice.
add_key_unseen(keys, new_key) ==
    With(new_key, LAMBDA key : IF Len(keys) >= MAX_GIN_KEYS THEN keys ELSE Append(keys, key))

\* add_key: appended unless the limit is reached or the key was seen.
add_key(keys, new_key) ==
    With(new_key, LAMBDA key :
        IF Len(keys) >= MAX_GIN_KEYS THEN keys
        ELSE IF \E i \in 1..Len(keys) : keys[i] = key THEN keys
        ELSE Append(keys, key))

\* get_element_hash: the hash of an atom's value; of a list, the hash of
\* its first element.
RECURSIVE get_element_hash(_, _, _, _)
get_element_hash(d, ptr, end, symbols) ==
    IF ptr >= end THEN <<0, 0>>
    ELSE
    LET byte == d[ptr]
        tag  == TagOf(byte)
        len  == decode_varint(d, ptr + 1, end)
    IN  CASE tag = SEXP_TAG_NIL -> sexp_hash_uint32(0)
          [] tag = SEXP_TAG_SMALLINT -> sexp_hash_int64(DataOf(byte) - SEXP_SMALLINT_BIAS)
          [] tag = SEXP_TAG_INTEGER -> sexp_hash_int64(zigzag_decode(len[1]))
          [] tag = SEXP_TAG_FLOAT ->
                IF ptr + 9 <= end THEN sexp_hash_float64(Slice(d, ptr + 1, ptr + 9))
                ELSE <<0, 0>>
          [] tag = SEXP_TAG_SYMBOL_REF ->
                IF len[1] < Len(symbols) THEN hash_bytes(symbols[len[1] + 1]) ELSE <<0, 0>>
          [] tag = SEXP_TAG_SHORT_STRING ->
                IF ptr + 1 + DataOf(byte) <= end
                THEN hash_bytes(Slice(d, ptr + 1, ptr + 1 + DataOf(byte)))
                ELSE <<0, 0>>
          [] tag = SEXP_TAG_LONG_STRING ->
                IF len[2] + len[1] <= end THEN hash_bytes(Slice(d, len[2], len[2] + len[1]))
                ELSE <<0, 0>>
          [] OTHER ->
                IF DataOf(byte) = 0
                THEN IF ptr + 9 > end THEN <<0, 0>>
                     ELSE With(LoadCount(d, ptr + 1), LAMBDA count :
                              IF count > 0
                              THEN get_element_hash(d, ptr + 9 + 4 * count, end, symbols)
                              ELSE sexp_hash_uint32(0))
                ELSE With(len[2], LAMBDA first : get_element_hash(d, first, end, symbols))

\* The header of the list at ptr as the two key extractors decode it:
\* [is_large_list, count, sentries, data_start].
GinListHeader(d, ptr, end) ==
    IF DataOf(d[ptr]) = 0
    THEN With(LoadCount(d, ptr + 1), LAMBDA count :
             [is_large_list |-> TRUE, count |-> count, sentries |-> ptr + 9,
              data_start |-> ptr + 9 + 4 * count])
    ELSE [is_large_list |-> FALSE, count |-> DataOf(d[ptr]), sentries |-> 0,
          data_start |-> decode_varint(d, ptr + 1, end)[2]]

\* is_pair_list: two elements, the first a symbol.
GinIsPairList(d, hdr) ==
    hdr.count = 2 /\ TagOf(d[hdr.data_start]) = SEXP_TAG_SYMBOL_REF

\* The list-head key of a list: the hash of its first element under
\* KEY_TYPE_LIST_HEAD.
GinHeadKey(d, hdr, end, symbols) ==
    make_atom_key(KEY_TYPE_LIST_HEAD, get_element_hash(d, hdr.data_start, end, symbols))

\* The pair key of a list (symbol value): the hashes of the head and of the
\* second element combined under KEY_TYPE_PAIR.
GinPairKey(d, hdr, end, symbols) ==
    With(IF hdr.is_large_list THEN hdr.data_start + SEntryOffset(d, hdr.sentries, 1)
         ELSE skip_element(d, hdr.data_start, end), LAMBDA second_elem :
    With(hash_combine32(U32(KEY_TYPE_PAIR), get_element_hash(d, hdr.data_start, end, symbols)),
         LAMBDA with_head :
        make_atom_key(KEY_TYPE_PAIR,
            hash_combine32(with_head, get_element_hash(d, second_elem, end, symbols)))))

\* The key of an atom at ptr added to keys (nothing for a truncated atom or
\* an invalid symbol index).
GinAtomKeys(d, ptr, end, symbols, keys) ==
    LET byte == d[ptr]
        tag  == TagOf(byte)
        len  == decode_varint(d, ptr + 1, end)
        hash == get_element_hash(d, ptr, end, symbols)
    IN  CASE tag = SEXP_TAG_NIL -> add_key(keys, make_atom_key(KEY_TYPE_ATOM, sexp_hash_uint32(0)))
          [] tag \in {SEXP_TAG_SMALLINT, SEXP_TAG_INTEGER} ->
                add_key(keys, make_atom_key(KEY_TYPE_INTEGER, hash))
          [] tag = SEXP_TAG_FLOAT ->
                IF ptr + 9 <= end THEN add_key(keys, make_atom_key(KEY_TYPE_FLOAT, hash))
                ELSE keys
          [] tag = SEXP_TAG_SYMBOL_REF ->
                IF len[1] < Len(symbols) THEN add_key(keys, make_atom_key(KEY_TYPE_SYMBOL, hash))
                ELSE keys
          [] tag = SEXP_TAG_SHORT_STRING ->
                IF ptr + 1 + DataOf(byte) <= end
                THEN add_key(keys, make_atom_key(KEY_TYPE_STRING, hash))
                ELSE keys
          [] OTHER ->
                IF len[2] + len[1] <= end THEN add_key(keys, make_atom_key(KEY_TYPE_STRING, hash))
                ELSE keys

\* extract_keys_recursive_impl: the keys array after the element at ptr of a
\* stored value.  A list of two elements with a symbol head gives its pair
\* key, any other list its list-head key; then the children give theirs.
\* The loop over the children i .. n - 1 of a large list runs front half
\* first, then back half, which is the order i, i + 1, ..
RECURSIVE extract_keys_recursive_impl(_, _, _, _, _)
extract_keys_recursive_impl(d, ptr, end, symbols, keys) ==
    IF ptr >= end \/ Len(keys) >= MAX_GIN_KEYS THEN keys
    ELSE IF TagOf(d[ptr]) # SEXP_TAG_LIST THEN GinAtomKeys(d, ptr, end, symbols, keys)
    ELSE IF DataOf(d[ptr]) = 0 /\ ptr + 5 > end THEN keys
    ELSE
    With(GinListHeader(d, ptr, end), LAMBDA hdr :
        LET RECURSIVE large(_, _, _)
            large(i, n, ks) ==
                IF i >= n \/ Len(ks) >= MAX_GIN_KEYS THEN ks
                ELSE IF n - i = 1
                THEN extract_keys_recursive_impl(d,
                         hdr.data_start + SEntryOffset(d, hdr.sentries, i), end, symbols, ks)
                ELSE With(large(i, (i + n) \div 2, ks),
                          LAMBDA more : large((i + n) \div 2, n, more))
            RECURSIVE small(_, _, _)
            small(i, elem_ptr, ks) ==
                IF i >= hdr.count \/ elem_ptr >= end \/ Len(ks) >= MAX_GIN_KEYS THEN ks
                ELSE With(<<skip_element(d, elem_ptr, end),
                            extract_keys_recursive_impl(d, elem_ptr, end, symbols, ks)>>,
                          LAMBDA next : small(i + 1, next[1], next[2]))
        IN  IF hdr.count = 0 THEN keys
            ELSE With(add_key(keys, IF GinIsPairList(d, hdr) THEN GinPairKey(d, hdr, end, symbols)
                                    ELSE GinHeadKey(d, hdr, end, symbols)), LAMBDA own :
                     IF hdr.is_large_list THEN large(0, hdr.count, own)
                     ELSE small(0, hdr.data_start, own)))

\* extract_query_keys_recursive that extracts as for a stored value, pair
\* keys included.
extract_query_keys_as_value(d, ptr, end, symbols, keys, skip_pair_keys) ==
    extract_keys_recursive_impl(d, ptr, end, symbols, keys)

\* extract_query_keys_recursive: the keys array after the element at ptr of a
\* query.  A list that is no pair gives its list-head key, a pair gives its
\* pair key unless skip_pair_keys; then the children give theirs.
RECURSIVE extract_query_keys_recursive(_, _, _, _, _, _)
extract_query_keys_recursive(d, ptr, end, symbols, keys, skip_pair_keys) ==
    IF ptr >= end \/ Len(keys) >= MAX_GIN_KEYS THEN keys
    ELSE IF TagOf(d[ptr]) # SEXP_TAG_LIST THEN GinAtomKeys(d, ptr, end, symbols, keys)
    ELSE IF DataOf(d[ptr]) = 0 /\ ptr + 5 > end THEN keys
    ELSE
    With(GinListHeader(d, ptr, end), LAMBDA hdr :
        LET RECURSIVE large(_, _, _)
            large(i, n, ks) ==
                IF i >= n \/ Len(ks) >= MAX_GIN_KEYS THEN ks
                ELSE IF n - i = 1
                THEN extract_query_keys_recursive(d,
                         hdr.data_start + SEntryOffset(d, hdr.sentries, i), end, symbols, ks,
                         skip_pair_keys)
                ELSE With(large(i, (i + n) \div 2, ks),
                          LAMBDA more : large((i + n) \div 2, n, more))
            RECURSIVE small(_, _, _)
            small(i, elem_ptr, ks) ==
                IF i >= hdr.count \/ elem_ptr >= end \/ Len(ks) >= MAX_GIN_KEYS THEN ks
                ELSE With(<<skip_element(d, elem_ptr, end),
                            extract_query_keys_recursive(d, elem_ptr, end, symbols, ks,
                                                         skip_pair_keys)>>,
                          LAMBDA next : small(i + 1, next[1], next[2]))
        IN  IF hdr.count = 0 THEN add_key(keys, make_atom_key(KEY_TYPE_ATOM, <<0, 0>>))
            ELSE With(IF ~GinIsPairList(d, hdr)
                      THEN add_key(keys, GinHeadKey(d, hdr, end, symbols))
                      ELSE IF ~skip_pair_keys
                      THEN add_key(keys, GinPairKey(d, hdr, end, symbols))
                      ELSE keys, LAMBDA own :
                     IF hdr.is_large_list THEN large(0, hdr.count, own)
                     ELSE small(0, hdr.data_start, own)))

\* sexp_gin_extract_value: the keys of a stored value.  The function reads
\* the symbol table itself, without the version check.
sexp_gin_extract_value(sexp) ==
    With(read_symbol_table(sexp), LAMBDA state :
    With(extract_keys_recursive_impl(sexp, state.ptr, state.end, state.symbols, <<>>),
         LAMBDA keys :
        IF keys = <<>> THEN <<make_atom_key(KEY_TYPE_ATOM, <<0, 0>>)>> ELSE keys))

\* sexp_gin_extract_query: [status, keys]; no key for the contained-by
\* strategy, an error for an unknown strategy.
sexp_gin_extract_query(query, strategy) ==
    IF strategy \in {SEXP_GIN_CONTAINS_STRATEGY, SEXP_GIN_CONTAINS_KEY_STRATEGY}
    THEN With(read_symbol_table(query), LAMBDA state :
         With(extract_query_keys_recursive(query, state.ptr, state.end, state.symbols,
                  <<>>, strategy = SEXP_GIN_CONTAINS_KEY_STRATEGY), LAMBDA keys :
             [status |-> "ok",
              keys |-> IF keys = <<>> THEN <<make_atom_key(KEY_TYPE_ATOM, <<0, 0>>)>>
                       ELSE keys]))
    ELSE IF strategy = SEXP_GIN_CONTAINED_STRATEGY THEN [status |-> "ok", keys |-> <<>>]
    ELSE [status |-> "error", keys |-> <<>>]

\* sexp_gin_consistent without its assignment to *recheck: the flag keeps
\* what the caller's variable held.
consistent_recheck_unwritten(check, strategy, nkeys, recheck0) ==
    IF strategy \in {SEXP_GIN_CONTAINS_STRATEGY, SEXP_GIN_CONTAINS_KEY_STRATEGY}
    THEN [status |-> "ok", result |-> \A i \in 1..nkeys : check[i], recheck |-> recheck0]
    ELSE IF strategy = SEXP_GIN_CONTAINED_STRATEGY
    THEN [status |-> "ok", result |-> TRUE, recheck |-> recheck0]
    ELSE [status |-> "error", result |-> FALSE, recheck |-> recheck0]

\* sexp_gin_consistent: [status, result, recheck].  recheck0 is what the
\* caller's recheck flag held before the call; the function writes the flag
\* before it looks at the strategy.
sexp_gin_consistent(check, strategy, nkeys, recheck0) ==
    IF strategy \in {SEXP_GIN_CONTAINS_STRATEGY, SEXP_GIN_CONTAINS_KEY_STRATEGY}
    THEN [status |-> "ok", result |-> \A i \in 1..nkeys : check[i], recheck |-> TRUE]
    ELSE IF strategy = SEXP_GIN_CONTAINED_STRATEGY
    THEN [status |-> "ok", result |-> TRUE, recheck |-> TRUE]
    ELSE [status |-> "error", result |-> FALSE, recheck |-> TRUE]

\* sexp_gin_triconsistent: [status, result] with result one of "GIN_FALSE",
\* "GIN_TRUE", "GIN_MAYBE", on a check vector of these three.
sexp_gin_triconsistent(check, strategy, nkeys) ==
    LET any_false == \E i \in 1..nkeys : check[i] = "GIN_FALSE"
        all_true  == \A i \in 1..nkeys : check[i] = "GIN_TRUE"
    IN  IF strategy \in {SEXP_GIN_CONTAINS_STRATEGY, SEXP_GIN_CONTAINS_KEY_STRATEGY}
        THEN [status |-> "ok",
              result |-> IF any_false THEN "GIN_FALSE"
                         ELSE IF all_true /\ nkeys = 1 THEN "GIN_TRUE"
                         ELSE "GIN_MAYBE"]
        ELSE IF strategy = SEXP_GIN_CONTAINED_STRATEGY
        THEN [status |-> "ok", result |-> "GIN_MAYBE"]
        ELSE [status |-> "error", result |-> "GIN_MAYBE"]

(***************************************************************************)
(* Pattern matching (sexp_match.c).                                        *)
(***************************************************************************)
\* is_pattern_symbol that knows no rest wildcard: "_*" is a literal symbol.
pattern_symbol_without_rest(sym) ==
    IF Len(sym) = 1 /\ sym[1] = 95 THEN "PAT_WILDCARD"
    ELSE IF Len(sym) >= 2 /\ sym[1] = 63 /\ sym[2] = 63 THEN "PAT_CAPTURE_REST"
    ELSE IF Len(sym) >= 1 /\ sym[1] = 63 THEN "PAT_CAPTURE"
    ELSE ""

\* is_pattern_symbol: the pattern type of a symbol's bytes, "" for a
\* symbol that is no pattern symbol ('_' is 95, '*' 42, '?' 63).
is_pattern_symbol(sym) ==
    IF Len(sym) = 1 /\ sym[1] = 95 THEN "PAT_WILDCARD"
    ELSE IF Len(sym) = 2 /\ sym[1] = 95 /\ sym[2] = 42 THEN "PAT_WILDCARD_REST"
    ELSE IF Len(sym) >= 2 /\ sym[1] = 63 /\ sym[2] = 63 THEN "PAT_CAPTURE_REST"
    ELSE IF Len(sym) >= 1 /\ sym[1] = 63 THEN "PAT_CAPTURE"
    ELSE ""

\* skip_element_internal: the position after the element at ptr, the
\* children of a list skipped one by one.
RECURSIVE skip_element_internal(_, _, _)
skip_element_internal(d, ptr, end) ==
    IF ptr >= end THEN ptr
    ELSE LET byte == d[ptr]
             tag  == TagOf(byte)
             RECURSIVE each(_, _)
             each(i, p) ==
                 IF i = 0 THEN p
                 ELSE With(skip_element_internal(d, p, end), LAMBDA next : each(i - 1, next))
         IN  CASE tag \in {SEXP_TAG_NIL, SEXP_TAG_SMALLINT} -> ptr + 1
               [] tag \in {SEXP_TAG_INTEGER, SEXP_TAG_SYMBOL_REF} ->
                     decode_varint(d, ptr + 1, end)[2]
               [] tag = SEXP_TAG_FLOAT -> ptr + 9
               [] tag = SEXP_TAG_SHORT_STRING -> ptr + 1 + DataOf(byte)
               [] tag = SEXP_TAG_LONG_STRING ->
                     With(decode_varint(d, ptr + 1, end), LAMBDA len : len[2] + len[1])
               [] OTHER ->
                     With(ListCountAndData(d, ptr + 1, end, byte), LAMBDA l : each(l[1], l[2]))

\* skip_element_internal called n times from ptr.
RECURSIVE SkipElementsInternal(_, _, _, _)
SkipElementsInternal(d, ptr, end, n) ==
    IF n <= 0 THEN ptr
    ELSE With(skip_element_internal(d, ptr, end), LAMBDA next :
             SkipElementsInternal(d, next, end, n - 1))

\* The pattern type of the element at ptr of a pattern: that of its
\* symbol when the element is a symbol reference with a valid index.
PatternTypeAt(p, p_syms, ptr, end) ==
    IF TagOf(p[ptr]) # SEXP_TAG_SYMBOL_REF THEN ""
    ELSE With(decode_varint(p, ptr + 1, end)[1], LAMBDA sym_idx :
             IF sym_idx < Len(p_syms) THEN is_pattern_symbol(p_syms[sym_idx + 1]) ELSE "")

\* elements_match and match_elements on expr_state = (e, e_syms, e_ptr,
\* e_end) and pat_state = (p, p_syms, p_ptr, p_end): [m, e_ptr, p_ptr], the
\* answer and, after a match, the two cursors.
RECURSIVE elements_match(_, _, _, _, _, _, _, _)
RECURSIVE match_elements(_, _, _, _, _, _, _, _)

\* match_elements, called with the two cursors after the tag bytes of two
\* lists: pattern elements are matched one to one; a rest pattern that is
\* the last pattern element takes the remaining expression elements, one
\* elsewhere fails.
match_elements(e, e_syms, e_ptr, e_end, p, p_syms, p_ptr, p_end) ==
    LET R(m, qe, qp) == [m |-> m, e_ptr |-> qe, p_ptr |-> qp]
        Fail == R(FALSE, e_ptr, p_ptr)
        RECURSIVE loop(_, _, _, _, _, _)
        loop(expr_count, pat_count, expr_i, pat_i, qe, qp) ==
            IF pat_i >= pat_count THEN R(expr_i = expr_count, qe, qp)
            ELSE With(PatternTypeAt(p, p_syms, qp, p_end), LAMBDA ptype :
                IF ptype \in {"PAT_WILDCARD_REST", "PAT_CAPTURE_REST"}
                THEN IF pat_i + 1 # pat_count THEN Fail
                     ELSE With(<<SkipElementsInternal(e, qe, e_end, expr_count - expr_i),
                                 decode_varint(p, qp + 1, p_end)[2]>>, LAMBDA after :
                              R(TRUE, after[1], after[2]))
                ELSE IF expr_i >= expr_count THEN Fail
                ELSE With(elements_match(e, e_syms, qe, e_end, p, p_syms, qp, p_end),
                          LAMBDA r : IF ~r.m THEN Fail
                                     ELSE loop(expr_count, pat_count, expr_i + 1, pat_i + 1,
                                               r.e_ptr, r.p_ptr)))
    IN  With(<<ListCountAndData(e, e_ptr, e_end, e[e_ptr - 1]),
               ListCountAndData(p, p_ptr, p_end, p[p_ptr - 1])>>, LAMBDA l :
            loop(l[1][1], l[2][1], 0, 0, l[1][2], l[2][2]))

\* elements_match: a wildcard or a capture takes one element, a rest
\* pattern fails here, anything else is compared as a literal.
elements_match(e, e_syms, e_ptr, e_end, p, p_syms, p_ptr, p_end) ==
    LET R(m, qe, qp) == [m |-> m, e_ptr |-> qe, p_ptr |-> qp]
        Fail == R(FALSE, e_ptr, p_ptr)
        Normal ==
            LET expr_byte == e[e_ptr]
                pat_byte  == p[p_ptr]
                tag       == TagOf(expr_byte)
            IN  IF tag # TagOf(pat_byte) THEN Fail
                ELSE CASE tag = SEXP_TAG_NIL -> R(TRUE, e_ptr + 1, p_ptr + 1)
                  [] tag = SEXP_TAG_SMALLINT -> R(expr_byte = pat_byte, e_ptr + 1, p_ptr + 1)
                  [] tag = SEXP_TAG_INTEGER ->
                        With(<<decode_varint(e, e_ptr + 1, e_end),
                               decode_varint(p, p_ptr + 1, p_end)>>, LAMBDA val :
                            R(val[1][1] = val[2][1], val[1][2], val[2][2]))
                  [] tag = SEXP_TAG_FLOAT ->
                        R(DoubleEq(Slice(e, e_ptr + 1, e_ptr + 9), Slice(p, p_ptr + 1, p_ptr + 9)),
                          e_ptr + 9, p_ptr + 9)
                  [] tag = SEXP_TAG_SYMBOL_REF ->
                        With(<<decode_varint(e, e_ptr + 1, e_end),
                               decode_varint(p, p_ptr + 1, p_end)>>, LAMBDA idx :
                            R(/\ idx[1][1] < Len(e_syms)
                              /\ idx[2][1] < Len(p_syms)
                              /\ e_syms[idx[1][1] + 1] = p_syms[idx[2][1] + 1],
                              idx[1][2], idx[2][2]))
                  [] tag = SEXP_TAG_SHORT_STRING ->
                        LET expr_len == DataOf(expr_byte)
                            pat_len  == DataOf(pat_byte)
                        IN  R(/\ expr_len = pat_len
                              /\ Slice(e, e_ptr + 1, e_ptr + 1 + expr_len)
                                    = Slice(p, p_ptr + 1, p_ptr + 1 + pat_len),
                              e_ptr + 1 + expr_len, p_ptr + 1 + pat_len)
                  [] tag = SEXP_TAG_LONG_STRING ->
                        With(<<decode_varint(e, e_ptr + 1, e_end),
                               decode_varint(p, p_ptr + 1, p_end)>>, LAMBDA len :
                            R(/\ len[1][1] = len[2][1]
                              /\ Slice(e, len[1][2], len[1][2] + len[1][1])
                                    = Slice(p, len[2][2], len[2][2] + len[2][1]),
                              len[1][2] + len[1][1], len[2][2] + len[2][1]))
                  [] OTHER ->
                        match_elements(e, e_syms, e_ptr + 1, e_end, p, p_syms, p_ptr + 1, p_end)
    IN  IF e_ptr >= e_end \/ p_ptr >= p_end THEN R(e_ptr >= e_end /\ p_ptr >= p_end, e_ptr, p_ptr)
        ELSE With(PatternTypeAt(p, p_syms, p_ptr, p_end), LAMBDA ptype :
            IF ptype \in {"PAT_WILDCARD", "PAT_CAPTURE"}
            THEN With(<<skip_element_internal(e, e_ptr, e_end),
                        decode_varint(p, p_ptr + 1, p_end)[2]>>, LAMBDA after :
                     R(TRUE, after[1], after[2]))
            ELSE IF ptype \in {"PAT_WILDCARD_REST", "PAT_CAPTURE_REST"} THEN Fail
            ELSE Normal)

\* sexp_match: expr matches pattern at the root.
sexp_match(expr, pattern) ==
    With(<<init_read_state_internal(expr), init_read_state_internal(pattern)>>, LAMBDA state :
        elements_match(expr, state[1].symbols, state[1].ptr, state[1].end,
                       pattern, state[2].symbols, state[2].ptr, state[2].end).m)

\* extract_current_element: the parent's header, then the element at ptr.
extract_current_element(parent, ptr, end) ==
    SubSeq(parent, 1, init_read_state_internal(parent).ptr - 1)
        \o Slice(parent, ptr, skip_element_internal(parent, ptr, end))

\* find_pattern_recursive that tries the element at ptr and never its
\* children.
find_pattern_at_root(e, e_syms, ptr, e_end, p, p_syms, pat_start, p_end) ==
    IF ptr < e_end /\ elements_match(e, e_syms, ptr, e_end, p, p_syms, pat_start, p_end).m
    THEN [found |-> TRUE, data |-> extract_current_element(e, ptr, e_end), ptr |-> ptr]
    ELSE [found |-> FALSE, data |-> <<>>, ptr |-> skip_element_internal(e, ptr, e_end)]

\* find_pattern_recursive from ptr of expr: [found, data, ptr], the answer,
\* the element found, and the cursor after the element searched.
RECURSIVE find_pattern_recursive(_, _, _, _, _, _, _, _)
find_pattern_recursive(e, e_syms, ptr, e_end, p, p_syms, pat_start, p_end) ==
    LET R(found, data, q) == [found |-> found, data |-> data, ptr |-> q]
        byte == e[ptr]
        RECURSIVE children(_, _, _)
        children(i, count, q) ==
            IF i >= count THEN R(FALSE, <<>>, q)
            ELSE With(find_pattern_recursive(e, e_syms, q, e_end, p, p_syms, pat_start, p_end),
                      LAMBDA r : IF r.found THEN r ELSE children(i + 1, count, r.ptr))
    IN  IF ptr >= e_end THEN R(FALSE, <<>>, ptr)
        ELSE IF elements_match(e, e_syms, ptr, e_end, p, p_syms, pat_start, p_end).m
        THEN R(TRUE, extract_current_element(e, ptr, e_end), ptr)
        ELSE IF TagOf(byte) = SEXP_TAG_LIST
        THEN With(ListCountAndData(e, ptr + 1, e_end, byte), LAMBDA l : children(0, l[1], l[2]))
        ELSE R(FALSE, <<>>, skip_element_internal(e, ptr, e_end))

\* sexp_find_first: the first element of expr that matches pattern, or
\* NULL.
sexp_find_first(expr, pattern) ==
    With(<<init_read_state_internal(expr), init_read_state_internal(pattern)>>, LAMBDA state :
    With(find_pattern_recursive(expr, state[1].symbols, state[1].ptr, state[1].end,
                                pattern, state[2].symbols, state[2].ptr, state[2].end),
         LAMBDA r : IF r.found THEN Ok(r.data) ELSE Null))

(***************************************************************************)
(* The content of a value: what the bytes denote, with symbol references   *)
(* resolved to their text, both integer encodings read as the number, and  *)
(* the two zeros of a float as one.  Two values are semantically equal     *)
(* when their contents are equal.                                          *)
(***************************************************************************)
RECURSIVE Content(_, _, _, _)
Content(d, ptr, end, symbols) ==
    LET byte == d[ptr]
        tag  == TagOf(byte)
        len  == decode_varint(d, ptr + 1, end)
        hdr  == decode_list_header(d, ptr + 1, end, byte)
        Child(i) == LET b == get_element_bounds(d, hdr, i, end)
                    IN  Content(d, b[1], b[2], symbols)
    IN  CASE tag = SEXP_TAG_NIL -> <<"nil", 0>>
          [] tag = SEXP_TAG_SMALLINT -> <<"integer", DataOf(byte) - SEXP_SMALLINT_BIAS>>
          [] tag = SEXP_TAG_INTEGER -> <<"integer", zigzag_decode(len[1])>>
          [] tag = SEXP_TAG_FLOAT ->
                LET val == Slice(d, ptr + 1, ptr + 9)
                IN  <<"float", IF IsZeroDouble(val) THEN <<0, 0, 0, 0, 0, 0, 0, 0>> ELSE val>>
          [] tag = SEXP_TAG_SYMBOL_REF -> <<"symbol", symbols[len[1] + 1]>>
          [] tag = SEXP_TAG_SHORT_STRING ->
                <<"string", Slice(d, ptr + 1, ptr + 1 + DataOf(byte))>>
          [] tag = SEXP_TAG_LONG_STRING -> <<"string", Slice(d, len[2], len[2] + len[1])>>
          [] OTHER -> <<"list", [i \in 1..hdr.count |-> Child(i - 1)]>>

ContentOf(sexp) ==
    LET state == init_read_state_internal(sexp)
    IN  Content(sexp, state.ptr, state.end, state.symbols)

\* A content and all its descendants.
RECURSIVE SubTrees(_)
SubTrees(t) ==
    {t} \cup (IF t[1] = "list" THEN UNION {SubTrees(t[2][i]) : i \in 1..Len(t[2])} ELSE {})

\* The rule of structural containment: c or a descendant of c is n.
StructuralRule(c, n) == n \in SubTrees(c)

\* The rule of key-based matching of an element c against a needle element
\* n: an atom n matches the equal atom; a list n matches a list c with an
\* equal head in which every tail element of n is matched by a tail element
\* of c, one tail element of c for each tail element of n.  With deep, a
\* tail element of c also matches by one of its descendants.
RECURSIVE KeyMatchRule(_, _, _)
KeyMatchRule(c, n, deep) ==
    IF n[1] # "list" THEN c = n
    ELSE /\ c[1] = "list"
         /\ Len(c[2]) >= Len(n[2])
         /\ c[2][1] = n[2][1]
         /\ \E f \in [2..Len(n[2]) -> 2..Len(c[2])] :
               /\ \A j, k \in 2..Len(n[2]) : j # k => f[j] # f[k]
               /\ \A j \in 2..Len(n[2]) :
                     \E d \in (IF deep THEN SubTrees(c[2][f[j]]) ELSE {c[2][f[j]]}) :
                         KeyMatchRule(d, n[2][j], deep)

\* The rule of key-based containment: c or a descendant of c matches n.
KeyRule(c, n, deep) == \E d \in SubTrees(c) : KeyMatchRule(d, n, deep)

(***************************************************************************)
(* The state: va and vb are two values (their bytes), res is the record of *)
(* the last operation.                                                     *)
(***************************************************************************)
VARIABLES va, vb, res

vars == <<va, vb, res>>

(***************************************************************************)
(* Values and the operations on them: a value is parsed from text, car,    *)
(* cdr and nth take parts of it, and the result is compared with a second  *)
(* parsed value.                                                           *)
(***************************************************************************)
\* The texts the first value of a run is parsed from.
ContainerTexts ==
    {<<"(", "1", " ", "2", " ", "3", " ", "4", " ", "5", " ", "6", ")">>,
     <<"(", "+", " ", "1", " ", "2", " ", "3", ")">>,
     <<"(", "h", " ", "a", " ", "x", ")">>,
     <<"0", ".", "0">>,
     <<"(", "a", " ", "(", "b", " ", "1", ".", "5", " ", "\"", "s", "\"", ")", " ",
       "(", "+", " ", "1", " ", "2", " ", "3", ")", ")">>,
     <<"(", "k", " ", "(", "x", " ", "5", ")", " ", "(", "h", " ", "a", " ", "a", ")", ")">>}

\* The texts the second value of a run is parsed from.
NeedleTexts ==
    {<<"(", "2", " ", "3", " ", "4", " ", "5", " ", "6", ")">>,
     <<"(", "+", " ", "2", " ", "1", ")">>,
     <<"(", "h", " ", "a", " ", "a", ")">>,
     <<"-", "0", ".", "0">>,
     <<"(", "b", " ", "1", ".", "5", " ", "\"", "s", "\"", ")">>,
     <<"(", "+", " ", "1", " ", "2", " ", "3", ")">>,
     <<"(", "x", " ", "5", ")">>,
     <<"3">>,
     <<"x">>,
     <<"(", "h", " ", "a", ")">>,
     <<"\"", "s", "\"">>,
     <<"(", "3", " ", "4", " ", "5", " ", "6", ")">>,
     <<"(", ")">>}

\* The largest index given to nth.
MaxNth == 1

Init ==
    /\ va \in {sexp_in(t).data : t \in ContainerTexts}
    /\ vb \in {sexp_in(t).data : t \in NeedleTexts}
    /\ res = [op |-> "sexp_in"]

\* car(va), cdr(va), nth(va, n): the value answered takes the place of va;
\* a NULL answer or an error leaves no value and nothing changes.
Car ==
    \E r \in {sexp_car(va)} :
        /\ r.status = "ok"
        /\ va' = r.data
        /\ res' = [op |-> "car"]
        /\ UNCHANGED vb

Cdr ==
    \E r \in {sexp_cdr(va)} :
        /\ r.status = "ok"
        /\ va' = r.data
        /\ res' = [op |-> "cdr"]
        /\ UNCHANGED vb

Nth ==
    \E n \in 0..MaxNth :
        \E r \in {sexp_nth(va, n)} :
            /\ r.status = "ok"
            /\ va' = r.data
            /\ res' = [op |-> "nth"]
            /\ UNCHANGED vb

\* va = vb, sexp_hash of both, va @> vb and va @>> vb, with the Bloom
\* signatures the two containment operators compute; source is the
\* operation va came from.
Compare ==
    /\ res' = [op |-> "compare",
               source |-> IF res.op = "compare" THEN res.source ELSE res.op,
               equal |-> sexp_equal(va, vb),
               hash_a |-> sexp_compute_hash(va),
               hash_b |-> sexp_compute_hash(vb),
               bloom_a |-> sexp_compute_bloom(va),
               bloom_b |-> sexp_compute_bloom(vb),
               contains |-> sexp_contains(va, vb),
               contains_key |-> sexp_contains_key(va, vb)]
    /\ UNCHANGED <<va, vb>>

Next == Car \/ Cdr \/ Nth \/ Compare

Spec == Init /\ [][Next]_vars

(***************************************************************************)
(* The list operations on one value: car, cdr and nth take parts of it,    *)
(* and length, car and cdr are taken side by side.                         *)
(***************************************************************************)
\* The texts the value of a run is parsed from.
ListTexts ==
    ContainerTexts \cup
    {<<"(", "7", ")">>,
     <<"(", "(", ")", " ", "\"", "s", "\"", " ", "(", "n", " ", "-", "1", "7", ")", ")">>,
     <<"n", "i", "l">>,
     <<"s", "y", "m">>,
     <<"(", "a", " ", "b", " ", "c", " ", "d", " ", "e", " ", "f", " ", "g", ")">>}

InitList ==
    /\ va \in {sexp_in(t).data : t \in ListTexts}
    /\ vb = <<>>
    /\ res = [op |-> "sexp_in"]

\* length(va), car(va) and cdr(va) taken side by side, and va @> va.
Decompose ==
    /\ \E cdr \in {sexp_cdr(va)} :
          res' = [op |-> "decompose",
                  length |-> sexp_length(va),
                  car |-> sexp_car(va),
                  cdr |-> cdr,
                  cdr_length |-> IF cdr.status = "ok" THEN sexp_length(cdr.data) ELSE -1,
                  self_contains |-> sexp_contains(va, va)]
    /\ UNCHANGED <<va, vb>>

NextList == Car \/ Cdr \/ Nth \/ Decompose

SpecList == InitList /\ [][NextList]_vars

(***************************************************************************)
(* Pattern matching: an expression, or a part taken from it by car, cdr    *)
(* and nth, is matched against a pattern and searched for it.              *)
(***************************************************************************)
\* The texts of the expressions and of the patterns.
ExprTexts ==
    {<<"(", "+", " ", "1", " ", "2", " ", "3", ")">>,
     <<"(", "a", " ", "(", "b", " ", "c", ")", " ", "d", ")">>,
     <<"(", "(", "a", " ", "1", ")", " ", "(", "a", " ", "2", ")", ")">>,
     <<"(", "1", " ", "2", " ", "3", " ", "4", " ", "5", " ", "6", ")">>,
     <<"x">>,
     <<"(", "a", ")">>,
     <<"(", ")">>,
     <<"(", "f", " ", "(", "g", " ", "(", "b", " ", "1", ")", ")", " ", "(", "b", " ", "2", ")", ")">>,
     <<"(", "_", "*", " ", "1", ")">>,
     <<"(", "a", " ", "0", ".", "0", " ", "\"", "s", "\"", ")">>}

PatternTexts ==
    {<<"(", "+", " ", "_", "*", ")">>,
     <<"(", "+", " ", "_", " ", "_", ")">>,
     <<"(", "_", "*", " ", "3", ")">>,
     <<"(", "+", " ", "_", "*", " ", "3", ")">>,
     <<"(", "a", " ", "_", "*", ")">>,
     <<"(", "b", " ", "_", ")">>,
     <<"_">>,
     <<"_", "*">>,
     <<"(", "a", " ", "_", ")">>,
     <<"(", "_", " ", "_", "*", ")">>,
     <<"(", "a", " ", "(", "b", " ", "_", "*", ")", " ", "_", "*", ")">>,
     <<"(", "_", "*", ")">>,
     <<"b">>,
     <<"(", "1", " ", "2", " ", "_", "*", ")">>,
     <<"(", "a", " ", "?", "?", "r", ")">>,
     <<"(", "_", "*", " ", "_", "*", ")">>,
     <<"(", "a", " ", "-", "0", ".", "0", " ", "?", "x", ")">>,
     <<"(", "_", " ", "(", "g", " ", "_", "*", ")", " ", "_", "*", ")">>}

InitMatch ==
    /\ va \in {sexp_in(t).data : t \in ExprTexts}
    /\ vb \in {sexp_in(t).data : t \in PatternTexts}
    /\ res = [op |-> "sexp_in"]

\* sexp_match(va, vb).
Match ==
    /\ res' = [op |-> "match", matched |-> sexp_match(va, vb)]
    /\ UNCHANGED <<va, vb>>

\* sexp_find(va, vb).
FindFirst ==
    /\ res' = [op |-> "find", found |-> sexp_find_first(va, vb)]
    /\ UNCHANGED <<va, vb>>

NextMatch == Car \/ Cdr \/ Nth \/ Match \/ FindFirst

SpecMatch == InitMatch /\ [][NextMatch]_vars

(***************************************************************************)
(* Parsing a text: vb is the text handed to sexp_in, va the value parsed   *)
(* (none before the parse and on an error), res the error raised.          *)
(***************************************************************************)
\* The SQLSTATE class of a parser error.
ParseErrcode(msg) ==
    IF msg = "" THEN ""
    ELSE IF msg = "sexp nesting depth exceeded" THEN "ERRCODE_PROGRAM_LIMIT_EXCEEDED"
    ELSE "ERRCODE_INVALID_TEXT_REPRESENTATION"

\* Tokens of the number grammar: sign, digits, fraction, exponent.
NumberTokens ==
    {s \o d \o f \o e : s \in {<<>>, <<"+">>, <<"-">>},
                        d \in {<<"1">>, <<"1", "0">>},
                        f \in {<<>>, <<".", "5">>},
                        e \in {<<>>, <<"e", "1", "0">>, <<"e", "-", "1", "0">>, <<"E", "+", "3">>}}

\* Other atoms: symbols that look like numbers, nil, a string.
AtomTexts ==
    {<<"a">>, <<"+">>, <<"-">>, <<".">>, <<"1", ".">>, <<".", "5">>, <<"1", ".", "2", ".", "3">>,
     <<"1", "-", "2">>, <<"e", "1">>, <<"n", "i", "l">>, <<"\"", "s", "\"">>}

\* Complete root expressions.
RootTexts ==
    {<<"a">>, <<"1">>, <<"(", ")">>, <<"(", "a", ")">>, <<"(", "a", " ", "(", "b", ")", ")">>,
     <<"\"", "s", "\"">>, <<"(", "1", "e", "1", "0", " ", "2", ")">>}
ClosedRootTexts == {r \in RootTexts : r[Len(r)] \in {")", "\""}}

\* What may follow a root expression without making the text wrong.
BlankTexts ==
    {<<" ">>, <<"\n">>, <<" ", ";", "c">>, <<";", "c", ")", "\n">>}

\* A root expression followed by characters that are neither white space
\* nor comment.
TrailingTexts ==
    {r \o s \o g : r \in RootTexts, s \in BlankTexts \ {<<" ", ";", "c">>},
                   g \in {<<"b">>, <<")">>, <<"(", "a", ")">>, <<"\"", "s", "\"">>}}
    \cup {r \o g : r \in ClosedRootTexts, g \in {<<"b">>, <<"1">>}}
    \cup {r \o g : r \in RootTexts, g \in {<<")">>, <<"(", ")">>, <<"\"", "s", "\"">>}}

\* Lists with no closing parenthesis.
UnterminatedListTexts ==
    {<<"(">>, <<"(", "a">>, <<"(", "a", " ">>, <<"(", "(", "a", ")">>, <<"(", "(">>,
     <<"(", "a", " ", "(", "b", ")">>, <<"(", "a", " ", "\"", "s", "\"">>,
     <<"(", "a", " ", ";", "c", ")">>, <<" ", "(", "1", " ", "2", "\n">>}

\* Strings with no closing quote.
UnterminatedStringTexts ==
    {<<"\"">>, <<"\"", "a", "b", "c">>, <<"\"", "a", "\\", "\"">>, <<"\"", "a", "\\">>,
     <<"(", "a", " ", "\"", "b", ")">>, <<"(", "\"", "s", "\"", " ", "\"", ")">>}

ParseTexts ==
    NumberTokens \cup AtomTexts \cup RootTexts \cup {r \o s : r \in RootTexts, s \in BlankTexts}
        \cup TrailingTexts \cup UnterminatedListTexts \cup UnterminatedStringTexts
        \cup {<<>>, <<" ">>, <<")">>, <<";", "c">>}

InitParse ==
    /\ va = <<>>
    /\ vb \in ParseTexts
    /\ res = [op |-> "text"]

\* sexp_in(vb): the value parsed, or the error raised and no value.
Parse ==
    /\ res.op = "text"
    /\ \E r \in {sexp_in(vb)} :
          /\ va' = r.data
          /\ res' = [op |-> "sexp_in", err |-> r.err, errcode |-> ParseErrcode(r.err)]
    /\ UNCHANGED vb

NextParse == Parse

SpecParse == InitParse /\ [][NextParse]_vars

(***************************************************************************)
(* The parser's nesting depth, step by step: vb is the text, res.ptr the   *)
(* position of the parser in it and res.depth the counter state->depth.    *)
(* Each call of parse_list is an EnterList step and, when it returns, a    *)
(* CloseList step; the calls in progress are the lists entered and not yet *)
(* closed.                                                                 *)
(***************************************************************************)
\* opens "(", then the atom a or nothing, then closes ")".
NestedText(opens, atom, closes) ==
    [i \in 1..opens |-> "("] \o (IF atom THEN <<"a">> ELSE <<>>) \o [i \in 1..closes |-> ")"]

\* The numbers of lists nested in the texts: a few, and those at the limit.
NestingLevels == {1, 2, 3, SEXP_MAX_DEPTH - 1, SEXP_MAX_DEPTH, SEXP_MAX_DEPTH + 1}

\* Complete texts, texts whose outermost list is not closed, and texts with
\* one ")" more after the root.
NestedTexts ==
    {NestedText(n, atom, n - open) : n \in NestingLevels, atom \in BOOLEAN, open \in {-1, 0, 1}}

InitDepth ==
    /\ va = <<>>
    /\ vb \in NestedTexts
    /\ res = [op |-> "input"]

\* sexp_parse: the state is set up with depth 0 and the root is parsed.
BeginParse ==
    /\ res.op = "input"
    /\ res' = [op |-> "parsing", ptr |-> 1, depth |-> 0, err |-> ""]
    /\ UNCHANGED <<va, vb>>

\* parse_list at "(": SEXP_CHECK_DEPTH raises when depth >= SEXP_MAX_DEPTH;
\* else the depth is incremented and the parenthesis skipped.
EnterList ==
    /\ res.op = "parsing"
    /\ res.ptr <= Len(vb)
    /\ vb[res.ptr] = "("
    /\ res' = IF res.depth >= SEXP_MAX_DEPTH
              THEN [res EXCEPT !.op = "error", !.err = "sexp nesting depth exceeded"]
              ELSE [res EXCEPT !.depth = res.depth + 1, !.ptr = res.ptr + 1]
    /\ UNCHANGED <<va, vb>>

\* parse_number_or_symbol on the atom: the token is consumed.
ParseAtom ==
    /\ res.op = "parsing"
    /\ res.ptr <= Len(vb)
    /\ vb[res.ptr] = "a"
    /\ res' = [res EXCEPT !.ptr = res.ptr + 1]
    /\ UNCHANGED <<va, vb>>

\* parse_list at ")", right after "(" (NIL) or after the elements: the
\* parenthesis is skipped, the depth decremented and the call returns.
CloseList ==
    /\ res.op = "parsing"
    /\ res.depth > 0
    /\ res.ptr <= Len(vb)
    /\ vb[res.ptr] = ")"
    /\ res' = [res EXCEPT !.depth = res.depth - 1, !.ptr = res.ptr + 1]
    /\ UNCHANGED <<va, vb>>

\* parse_list at the end of the input.
UnterminatedList ==
    /\ res.op = "parsing"
    /\ res.depth > 0
    /\ res.ptr > Len(vb)
    /\ res' = [res EXCEPT !.op = "error", !.err = "unterminated list"]
    /\ UNCHANGED <<va, vb>>

\* sexp_parse after the root: the rest of the input is checked and the
\* value built.
FinishParse ==
    /\ res.op = "parsing"
    /\ res.depth = 0
    /\ res.ptr > 1
    /\ res' = IF res.ptr <= Len(vb)
              THEN [res EXCEPT !.op = "error",
                               !.err = "unexpected characters after s-expression"]
              ELSE [res EXCEPT !.op = "parsed"]
    /\ UNCHANGED <<va, vb>>

NextDepth ==
    BeginParse \/ EnterList \/ ParseAtom \/ CloseList \/ UnterminatedList \/ FinishParse

SpecDepth == InitDepth /\ [][NextDepth]_vars

(***************************************************************************)
(* The parser's symbol table, token by token: res.count is symtab.count    *)
(* and res.idx the index intern_symbol returned for the last token.  The   *)
(* symbols of the table are the distinct symbols read so far.              *)
(***************************************************************************)
SEXP_MAX_SYMBOLS == 65536

\* The largest number of distinct symbols of an input text.
MaxDistinctSymbols == SEXP_MAX_SYMBOLS + 1

InitSymbols ==
    /\ va = <<>>
    /\ vb = <<>>
    /\ res = [op |-> "init_symbol_table", count |-> 0, idx |-> 0]

\* intern_symbol on a symbol that is not in the table: it is added as the
\* last entry, whatever the count is.
InternNew ==
    /\ res.op \in {"init_symbol_table", "intern_symbol"}
    /\ res.count < MaxDistinctSymbols
    /\ res' = [op |-> "intern_symbol", count |-> res.count + 1, idx |-> res.count]
    /\ UNCHANGED <<va, vb>>

\* intern_symbol on a symbol of the table (the first or the last entry):
\* its index is returned.
InternOld ==
    /\ res.op = "intern_symbol"
    /\ \E idx \in {0, res.count - 1} :
          res' = [op |-> "intern_symbol", count |-> res.count, idx |-> idx]
    /\ UNCHANGED <<va, vb>>

\* sexp_parse at the end of the text: the value is built with the count
\* and the entries of the table.
BuildValue ==
    /\ res.op = "intern_symbol"
    /\ res' = [op |-> "sexp_parse", count |-> res.count, idx |-> res.idx]
    /\ UNCHANGED <<va, vb>>

NextSymbols == InternNew \/ InternOld \/ BuildValue

SpecSymbols == InitSymbols /\ [][NextSymbols]_vars

(***************************************************************************)
(* Binary input: vb is the buffer handed to sexp_recv, va the value it     *)
(* becomes, and each reading operation is applied to va.  res.out is the   *)
(* sequence of the results of the operation, each [status, data].          *)
(***************************************************************************)
\* sexp_init_read_state raised its error on the value.
Raised(sexp) == init_read_state_internal(sexp).err # ""

\* The value with another version byte.
SetVersion(d, version) == <<version>> \o Tail(d)

\* The value with an empty symbol table: every symbol reference of it has
\* an index that is not below the symbol count.
WithoutSymbols(d) == <<d[1], 0>> \o SubSeq(d, init_read_state_internal(d).ptr, Len(d))

RecvTexts ==
    {<<"a">>, <<"(", "a", " ", "b", ")">>, <<"(", "a", " ", "(", "b", " ", "1", ")", ")">>,
     <<"n", "i", "l">>, <<"7">>, <<"\"", "s", "\"">>, <<"1", ".", "5">>,
     <<"(", "+", " ", "1", " ", "2", ")">>,
     <<"(", "1", " ", "2", " ", "3", " ", "4", " ", "5", " ", "a", ")">>}
RecvVersions == {SEXP_FORMAT_VERSION - 1, SEXP_FORMAT_VERSION, SEXP_FORMAT_VERSION + 1, 255}

\* Values whose symbol references point outside the symbol table.
InvalidSymbolValues ==
    {WithoutSymbols(sexp_in(t).data) : t \in {x \in RecvTexts : sexp_in(x).data[2] > 0}}

RecvBuffers ==
    {SetVersion(sexp_in(t).data, v) : t \in RecvTexts, v \in RecvVersions}
        \cup InvalidSymbolValues

InitRecv ==
    /\ va = <<>>
    /\ vb \in RecvBuffers
    /\ res = [op |-> "buffer"]

\* sexp_recv: the bytes of the buffer are the value.
Recv ==
    /\ res.op = "buffer"
    /\ va' = vb
    /\ res' = [op |-> "sexp_recv"]
    /\ UNCHANGED vb

\* sexp_out(va).
RecvOut ==
    /\ res.op = "sexp_recv"
    /\ res' = [op |-> "sexp_out",
               out |-> <<IF Raised(va) THEN Error("ERRCODE_DATA_CORRUPTED")
                         ELSE Ok(sexp_to_cstring(va))>>]
    /\ UNCHANGED <<va, vb>>

\* sexp_eq(va, b), b the value itself or NIL: equal bytes are answered
\* before the values are read.
RecvEq ==
    /\ res.op = "sexp_recv"
    /\ \E b \in {va, sexp_get_nil_singleton} :
          res' = [op |-> "sexp_eq", other |-> b,
                  out |-> <<IF va = b THEN Ok(TRUE)
                            ELSE IF Raised(va) \/ Raised(b)
                                 THEN Error("ERRCODE_DATA_CORRUPTED")
                                 ELSE Ok(sexp_equal(va, b))>>]
    /\ UNCHANGED <<va, vb>>

\* sexp_hash(va).
RecvHash ==
    /\ res.op = "sexp_recv"
    /\ res' = [op |-> "sexp_hash",
               out |-> <<IF Raised(va) THEN Error("ERRCODE_DATA_CORRUPTED")
                         ELSE Ok(sexp_compute_hash(va))>>]
    /\ UNCHANGED <<va, vb>>

\* car(va), cdr(va), nth(va, n).
RecvAccess ==
    /\ res.op = "sexp_recv"
    /\ \E n \in {-1, 0} :
          res' = [op |-> "access", n |-> n,
                  out |-> <<sexp_car(va), sexp_cdr(va), sexp_nth(va, n)>>]
    /\ UNCHANGED <<va, vb>>

\* va @> b and va @>> b, b the value itself or NIL.
RecvContains ==
    /\ res.op = "sexp_recv"
    /\ \E b \in {va, sexp_get_nil_singleton} :
          res' = [op |-> "contains", other |-> b,
                  out |-> IF Raised(va) \/ Raised(b)
                          THEN <<Error("ERRCODE_DATA_CORRUPTED"),
                                 Error("ERRCODE_DATA_CORRUPTED")>>
                          ELSE <<Ok(sexp_contains(va, b)), Ok(sexp_contains_key(va, b))>>]
    /\ UNCHANGED <<va, vb>>

\* sexp_match(va, b) and sexp_find(va, b), the pattern b the value itself
\* or NIL.
RecvMatch ==
    /\ res.op = "sexp_recv"
    /\ \E b \in {va, sexp_get_nil_singleton} :
          res' = [op |-> "match", other |-> b,
                  out |-> IF Raised(va) \/ Raised(b)
                          THEN <<Error("ERRCODE_DATA_CORRUPTED"),
                                 Error("ERRCODE_DATA_CORRUPTED")>>
                          ELSE <<Ok(sexp_match(va, b)), sexp_find_first(va, b)>>]
    /\ UNCHANGED <<va, vb>>

\* sexp_gin_extract_value(va).
RecvExtractValue ==
    /\ res.op = "sexp_recv"
    /\ res' = [op |-> "sexp_gin_extract_value", out |-> <<Ok(sexp_gin_extract_value(va))>>]
    /\ UNCHANGED <<va, vb>>

NextRecv ==
    Recv \/ RecvOut \/ RecvEq \/ RecvHash \/ RecvAccess \/ RecvContains \/ RecvMatch
        \/ RecvExtractValue

SpecRecv == InitRecv /\ [][NextRecv]_vars

(***************************************************************************)
(* Text output and input: a parsed value is printed and the text is parsed *)
(* again.                                                                  *)
(***************************************************************************)
\* The atoms of the texts: integers, floats, a symbol, a string, nil.
IOAtoms ==
    {<<"1">>, <<"-", "1", "7">>, <<"1", ".", "0">>, <<"1", ".", "5">>,
     <<"-", "0", ".", "0">>, <<"-", "2", ".", "2", "5">>, <<"a">>,
     <<"\"", "s", "\\", "\"", "\"">>, <<"n", "i", "l">>}

\* The texts: an atom, or a list of two atoms.
IOTexts ==
    IOAtoms \cup {<<"(">> \o x \o <<" ">> \o y \o <<")">> : x, y \in IOAtoms}

InitIO ==
    /\ va \in {sexp_in(t).data : t \in IOTexts}
    /\ vb = <<>>
    /\ res = [op |-> "sexp_in"]

\* sexp_out(va): the text of va.
Output ==
    /\ res.op = "sexp_in"
    /\ res' = [op |-> "sexp_out", text |-> sexp_to_cstring(va)]
    /\ UNCHANGED <<va, vb>>

\* sexp_in of the text printed: vb is the value parsed (none on an error),
\* and it is compared with va.
Input ==
    /\ res.op = "sexp_out"
    /\ \E r \in {sexp_parse(res.text)} :
          /\ vb' = r.data
          /\ res' = [op |-> "sexp_in_again", err |-> r.err,
                     equal |-> r.err = "" /\ sexp_equal(va, r.data)]
    /\ UNCHANGED va

NextIO == Output \/ Input

SpecIO == InitIO /\ [][NextIO]_vars

(***************************************************************************)
(* The index: va is a stored value, vb a query.  A probe extracts the keys *)
(* of both, tells the consistent function which query keys the stored      *)
(* value has, and the operator of the strategy is what the recheck runs.   *)
(***************************************************************************)
\* The texts of the stored values.
GinValueTexts ==
    {<<"(", "x", " ", "5", ")">>,
     <<"(", "(", "y", ")", " ", "(", "x", " ", "5", ")", ")">>,
     <<"(", "y", " ", "x", ")">>,
     <<"x">>,
     <<"(", "+", " ", "1", " ", "2", " ", "3", ")">>,
     <<"(", "u", " ", "(", "n", " ", "\"", "s", "\"", ")", " ", "(", "g", " ", "3", "0", ")", ")">>,
     <<"0", ".", "0">>,
     <<"(", "a", " ", "b", " ", "c", ")">>}

\* The texts of the queries.
GinQueryTexts ==
    {<<"(", "x", ")">>,
     <<"(", "x", " ", "x", ")">>,
     <<"x">>,
     <<"(", "x", " ", "5", ")">>,
     <<"5">>,
     <<"(", "+", " ", "2", " ", "1", ")">>,
     <<"(", "u", " ", "(", "g", " ", "3", "0", ")", ")">>,
     <<"-", "0", ".", "0">>,
     <<"(", "a", " ", "b", " ", "c", ")">>,
     <<"(", ")">>}

\* The largest strategy number and the largest key count given to the
\* consistent function called on its own.
MaxStrategy == 9
MaxKeys == 2

\* The strategy numbers of the operator class, and the numbers a call is
\* made with: the three of the class and others.
GinStrategies ==
    {SEXP_GIN_CONTAINS_STRATEGY, SEXP_GIN_CONTAINED_STRATEGY, SEXP_GIN_CONTAINS_KEY_STRATEGY}
StrategyNumbers == (SEXP_GIN_CONTAINS_STRATEGY - 1)..MaxStrategy

InitGin ==
    /\ va \in {sexp_in(t).data : t \in GinValueTexts}
    /\ vb \in {sexp_in(t).data : t \in GinQueryTexts}
    /\ res = [op |-> "sexp_in"]

\* The operator a strategy stands for, on the stored value and the query:
\* va @> vb, va <@ vb, va @>> vb.
GinOperator(strategy) ==
    CASE strategy = SEXP_GIN_CONTAINS_STRATEGY -> sexp_contains(va, vb)
      [] strategy = SEXP_GIN_CONTAINED_STRATEGY -> sexp_contains(vb, va)
      [] OTHER -> sexp_contains_key(va, vb)

\* Whether each of the query keys is among the stored value's keys.
KeysPresent(query_keys, value_keys) ==
    [i \in 1..Len(query_keys) |-> \E j \in 1..Len(value_keys) : value_keys[j] = query_keys[i]]

\* A probe with the consistent function, the one probe of a run: the check
\* vector says for each query key whether the stored value has it.
IndexProbe ==
    /\ res.op = "sexp_in"
    /\ \E value_keys \in {sexp_gin_extract_value(va)} :
       \E strategy \in GinStrategies :
       \E query \in {sexp_gin_extract_query(vb, strategy)} :
       \E check \in {KeysPresent(query.keys, value_keys)} :
       \E operator \in {GinOperator(strategy)} :
       \E recheck0 \in BOOLEAN :
          res' = [op |-> "probe", strategy |-> strategy, nkeys |-> Len(query.keys),
                  check |-> check, recheck0 |-> recheck0,
                  out |-> sexp_gin_consistent(check, strategy, Len(query.keys), recheck0),
                  operator |-> operator]
    /\ UNCHANGED <<va, vb>>

\* A probe with the ternary function: a key the index cannot tell about is
\* GIN_MAYBE, any other is GIN_TRUE or GIN_FALSE as the stored value has it
\* or not.
TriProbe ==
    /\ res.op = "sexp_in"
    /\ \E value_keys \in {sexp_gin_extract_value(va)} :
       \E strategy \in GinStrategies :
       \E query \in {sexp_gin_extract_query(vb, strategy)} :
       \E present \in {KeysPresent(query.keys, value_keys)} :
       \E operator \in {GinOperator(strategy)} :
       \E unknown \in SUBSET (1..Len(query.keys)) :
       \E check \in {[i \in 1..Len(query.keys) |->
                         IF i \in unknown THEN "GIN_MAYBE"
                         ELSE IF present[i] THEN "GIN_TRUE" ELSE "GIN_FALSE"]} :
          res' = [op |-> "triprobe", strategy |-> strategy, nkeys |-> Len(query.keys),
                  check |-> check,
                  out |-> sexp_gin_triconsistent(check, strategy, Len(query.keys)),
                  query_is_list |->
                      TagOf(vb[init_read_state_internal(vb).ptr]) = SEXP_TAG_LIST,
                  operator |-> operator]
    /\ UNCHANGED <<va, vb>>

\* The consistent function called with any strategy number, key count and
\* check vector, and either value of the caller's recheck flag.
ConsistentCall ==
    /\ res.op = "sexp_in"
    /\ \E strategy \in StrategyNumbers, nkeys \in 0..MaxKeys, recheck0 \in BOOLEAN :
       \E check \in [1..nkeys -> BOOLEAN] :
          res' = [op |-> "consistent", strategy |-> strategy, nkeys |-> nkeys,
                  check |-> check, recheck0 |-> recheck0,
                  out |-> sexp_gin_consistent(check, strategy, nkeys, recheck0)]
    /\ UNCHANGED <<va, vb>>

NextGin == IndexProbe \/ TriProbe \/ ConsistentCall

SpecGin == InitGin /\ [][NextGin]_vars

(***************************************************************************)
(* Key extraction: the keys of the stored value va and of the query vb     *)
(* under a strategy, side by side.                                         *)
(***************************************************************************)
\* Stored values that cdr built: lists in the large format, one of them a
\* list of two elements with a symbol head.
KeyValueTexts ==
    {<<"(", "k", " ", "x", " ", "5", ")">>,
     <<"(", "k", " ", "(", "x", " ", "5", ")", " ", "(", "x", " ", "5", ")", " ",
       "(", "x", " ", "5", " ", "6", ")", ")">>}

InitKeys ==
    /\ va \in {sexp_in(t).data : t \in GinValueTexts}
                 \cup {sexp_cdr(sexp_in(t).data).data : t \in KeyValueTexts}
    /\ vb \in {sexp_in(t).data : t \in GinQueryTexts}
    /\ res = [op |-> "sexp_in"]

\* sexp_gin_extract_value(va) and sexp_gin_extract_query(vb, strategy).
ExtractKeys ==
    /\ res.op = "sexp_in"
    /\ \E strategy \in GinStrategies :
       \E value_keys \in {sexp_gin_extract_value(va)} :
       \E query \in {sexp_gin_extract_query(vb, strategy)} :
          res' = [op |-> "extract", strategy |-> strategy, value_keys |-> value_keys,
                  query_keys |-> query.keys]
    /\ UNCHANGED <<va, vb>>

NextKeys == ExtractKeys

SpecKeys == InitKeys /\ [][NextKeys]_vars

(***************************************************************************)
(* The key limit: extraction from values with more distinct atoms than     *)
(* MAX_GIN_KEYS.                                                           *)
(***************************************************************************)
\* The list of the n integers 64 .. 63 + n in the large format with the
\* structural hash 0, as sexp_cdr writes the rest of the list (63 64 ..).
\* Each element is three bytes: the integer tag and a two-byte varint.
IntegerList(n) ==
    <<SEXP_FORMAT_VERSION, 0, SEXP_TAG_LIST>> \o U32Bytes(U32(n)) \o U32Bytes(dummy_hash)
        \o [i \in 1..(4 * n) |-> SEntryBytes(SENTRY_TYPE_INTEGER, 3 * ((i - 1) \div 4))[((i - 1) % 4) + 1]]
        \o [i \in 1..(3 * n) |->
               LET encoded == zigzag_encode(64 + ((i - 1) \div 3))
               IN  CASE (i - 1) % 3 = 0 -> SEXP_TAG_INTEGER
                     [] (i - 1) % 3 = 1 -> 128 + (encoded % 128)
                     [] OTHER -> encoded \div 128]

KeyRichValues == {IntegerList(n) : n \in (MAX_GIN_KEYS - 2)..(MAX_GIN_KEYS + 2)}

InitKeyLimit ==
    /\ va \in {sexp_in(t).data : t \in GinValueTexts \cup GinQueryTexts}
                 \cup {sexp_cdr(sexp_in(t).data).data : t \in KeyValueTexts}
                 \cup KeyRichValues
    /\ vb = <<>>
    /\ res = [op |-> "sexp_in"]

\* sexp_gin_extract_value(va).
ExtractValueKeys ==
    /\ res.op = "sexp_in"
    /\ \E keys \in {sexp_gin_extract_value(va)} :
          res' = [op |-> "sexp_gin_extract_value", keys |-> keys]
    /\ UNCHANGED <<va, vb>>

\* sexp_gin_extract_query(va, strategy).
ExtractQueryKeys ==
    /\ res.op = "sexp_in"
    /\ \E strategy \in GinStrategies :
       \E query \in {sexp_gin_extract_query(va, strategy)} :
          res' = [op |-> "sexp_gin_extract_query", strategy |-> strategy, keys |-> query.keys]
    /\ UNCHANGED <<va, vb>>

NextKeyLimit == ExtractValueKeys \/ ExtractQueryKeys

SpecKeyLimit == InitKeyLimit /\ [][NextKeyLimit]_vars

(***************************************************************************)
(* The NIL singleton (sexp_io.c).  vb holds the file-level variable        *)
(* nil_singleton: <<>> for NULL, else the bytes of the datum it points to. *)
(* res counts the allocations made for it and the requests answered, and   *)
(* tells whether va is that datum.                                         *)
(***************************************************************************)
\* build_nil_sexp that allocates on every call.
build_nil_sexp_fresh(nil_singleton, allocations) ==
    [nil_singleton |-> sexp_get_nil_singleton, allocations |-> allocations + 1]

\* The largest number of requests for the singleton followed.
MaxRequests == 3

\* build_nil_sexp, that is sexp_get_nil_singleton, on the variable and the
\* count of allocations: allocated when the variable is NULL, else as it is.
build_nil_sexp(nil_singleton, allocations) ==
    IF nil_singleton = <<>>
    THEN [nil_singleton |-> sexp_get_nil_singleton, allocations |-> allocations + 1]
    ELSE [nil_singleton |-> nil_singleton, allocations |-> allocations]

NilTexts ==
    {<<"(", "1", ")">>, <<"(", "a", " ", "b", ")">>, <<"(", "(", "x", ")", " ", "y", ")">>,
     <<"(", ")">>, <<"n", "i", "l">>, <<"5">>, <<"(", "1", " ", "2", " ", "3", ")">>,
     <<"(", "(", "1", " ", "2", ")", " ", "(", "a", ")", ")">>}

InitNil ==
    /\ va \in {sexp_in(t).data : t \in NilTexts}
    /\ vb = <<>>
    /\ res = [op |-> "sexp_in", allocations |-> 0, requests |-> 0, returned |-> FALSE]

\* sexp_cdr_func(va): the rest of a list of at most one element is the
\* singleton, the rest of a longer list a new value.
CdrFunc ==
    /\ res.requests < MaxRequests
    /\ \E r \in {sexp_cdr(va)} :
          /\ r.status = "ok"
          /\ IF r.data = sexp_get_nil_singleton
             THEN \E g \in {build_nil_sexp(vb, res.allocations)} :
                     /\ vb' = g.nil_singleton
                     /\ va' = g.nil_singleton
                     /\ res' = [op |-> "cdr", allocations |-> g.allocations,
                                requests |-> res.requests + 1, returned |-> TRUE]
             ELSE /\ va' = r.data
                  /\ res' = [res EXCEPT !.op = "cdr", !.returned = FALSE]
                  /\ UNCHANGED vb

\* car(va) and nth(va, n): a new value.
CarNth ==
    /\ \E r \in {sexp_car(va)} \cup {sexp_nth(va, n) : n \in 0..MaxNth} :
          /\ r.status = "ok"
          /\ va' = r.data
          /\ res' = [res EXCEPT !.op = "access", !.returned = FALSE]
    /\ UNCHANGED vb

\* The operations that take va and answer no sexp: equality with itself,
\* hash and text.  None writes to its argument.
ReadValue ==
    /\ res.op # "read"
    /\ res' = [res EXCEPT !.op = "read"]
    /\ sexp_equal(va, va)
    /\ sexp_compute_hash(va) = sexp_compute_hash(va)
    /\ UNCHANGED <<va, vb>>

\* sexp_in: the next value to work on.
ParseNext ==
    /\ res.op # "sexp_in"
    /\ va' \in {sexp_in(t).data : t \in NilTexts}
    /\ res' = [res EXCEPT !.op = "sexp_in", !.returned = FALSE]
    /\ UNCHANGED vb

NextNil == CdrFunc \/ CarNth \/ ReadValue \/ ParseNext

SpecNil == InitNil /\ [][NextNil]_vars

(***************************************************************************)
(* The two long loops, child by child: the containment scan and the key    *)
(* extraction over the top-level children of the list va.  res counts the  *)
(* children taken (i), the times the host's interrupt check was reached    *)
(* (checks), and the children taken while a cancellation was pending       *)
(* (unobserved).                                                           *)
(***************************************************************************)
ScanTexts ==
    {<<"(", "a", " ", "b", " ", "c", ")">>,
     <<"(", "1", " ", "2", " ", "3", " ", "4", " ", "5", " ", "6", ")">>,
     <<"(", "(", "x", " ", "5", ")", " ", "(", "y", " ", "6", ")", ")">>,
     <<"(", "x", ")">>, <<"(", ")">>, <<"(", "k", " ", "(", "x", " ", "5", ")", " ", "5", ")">>}

ScanNeedleTexts == {<<"c">>, <<"5">>, <<"(", "x", " ", "5", ")">>, <<"z">>}

ScanLoops == {"contains_fast_scan", "extract_keys_recursive_impl"}

InitScan ==
    /\ va \in {sexp_in(t).data : t \in ScanTexts}
    /\ vb \in {sexp_in(t).data : t \in ScanNeedleTexts}
    /\ res = [op |-> "sexp_in"]

\* The call on the root list: the root is compared with the element, or
\* gives its own key, and the loop over its children starts.
BeginScan ==
    /\ res.op = "sexp_in"
    /\ \E loop \in ScanLoops :
       \E state \in {<<init_read_state_internal(va), init_read_state_internal(vb)>>} :
          res' = [op |-> "scan", loop |-> loop, i |-> 0, count |-> sexp_length(va),
                  checks |-> 0, pending |-> FALSE, unobserved |-> 0,
                  found |-> /\ loop = "contains_fast_scan"
                            /\ TagOf(va[state[1].ptr]) = SEXP_TAG_LIST
                            /\ va[state[1].ptr] = vb[state[2].ptr]
                            /\ elements_equal_recursive(
                                   va, state[1].symbols, state[1].ptr, state[1].end,
                                   vb, state[2].symbols, state[2].ptr, state[2].end).eq,
                  keys |-> IF loop = "contains_fast_scan" \/ sexp_length(va) = 0 THEN <<>>
                           ELSE With(GinListHeader(va, state[1].ptr, state[1].end), LAMBDA hdr :
                                    add_key(<<>>, IF GinIsPairList(va, hdr)
                                                  THEN GinPairKey(va, hdr, state[1].end, state[1].symbols)
                                                  ELSE GinHeadKey(va, hdr, state[1].end, state[1].symbols)))]
    /\ UNCHANGED <<va, vb>>

\* The host marks the query cancelled while the loop runs.
Cancel ==
    /\ res.op = "scan"
    /\ ~res.pending
    /\ res' = [res EXCEPT !.pending = TRUE]
    /\ UNCHANGED <<va, vb>>

\* One turn of the loop, on child i: the scan recurses into it, or its keys
\* are added.  Neither loop body reaches an interrupt check, so checks
\* stays and a pending cancellation is passed over.
VisitChild ==
    /\ res.op = "scan"
    /\ res.i < res.count
    /\ ~res.found
    /\ \E child \in {sexp_nth(va, res.i).data} :
       \E state \in {<<init_read_state_internal(child), init_read_state_internal(vb)>>} :
          res' = [res EXCEPT
                    !.i = res.i + 1,
                    !.unobserved = IF res.pending THEN res.unobserved + 1 ELSE res.unobserved,
                    !.found = /\ res.loop = "contains_fast_scan"
                              /\ get_sentry_type_from_tag(child[state[1].ptr])
                                    \in {get_sentry_type_from_tag(vb[state[2].ptr]), SENTRY_TYPE_LIST}
                              /\ contains_fast_scan(child, state[1].symbols, state[1].ptr, state[1].end,
                                                    vb, state[2].symbols, state[2].ptr, state[2].end,
                                                    vb[state[2].ptr],
                                                    get_sentry_type_from_tag(vb[state[2].ptr])),
                    !.keys = IF res.loop = "contains_fast_scan" THEN <<>>
                             ELSE extract_keys_recursive_impl(child, state[1].ptr, state[1].end,
                                                              state[1].symbols, res.keys)]
    /\ UNCHANGED <<va, vb>>

\* The loop ends: the element was found or every child was taken.
EndScan ==
    /\ res.op = "scan"
    /\ res.found \/ res.i >= res.count
    /\ res' = [res EXCEPT !.op = "done"]
    /\ UNCHANGED <<va, vb>>

NextScan == BeginScan \/ Cancel \/ VisitChild \/ EndScan

SpecScan == InitScan /\ [][NextScan]_vars

(***************************************************************************)
(* Equality over encodings: the values compared are parsed texts, values   *)
(* taken from lists, and buffers a client sent through sexp_recv, which    *)
(* takes any encoding of an element.                                       *)
(***************************************************************************)
\* The integer n with the integer tag and a zigzag varint, whatever n is.
IntegerEncoded(n) ==
    <<SEXP_FORMAT_VERSION, 0, SEXP_TAG_INTEGER>> \o encode_varint(zigzag_encode(n))

\* The string with the long-string tag and a varint length, whatever its
\* length is.
LongStringEncoded(bytes) ==
    <<SEXP_FORMAT_VERSION, 0, SEXP_TAG_LONG_STRING>> \o encode_varint(Len(bytes)) \o bytes

\* The double with the given eight bytes.
FloatEncoded(bytes) == <<SEXP_FORMAT_VERSION, 0, SEXP_TAG_FLOAT>> \o bytes

EqualTexts ==
    {<<"5">>, <<"\"", "s", "\"">>, <<"a">>, <<"(", "1", " ", "2", ")">>,
     <<"(", "1", " ", "\"", "a", "b", "\"", ")">>, <<"(", "1", " ", "x", ")">>,
     <<"(", "(", "a", " ", "5", ")", " ", "7", ")">>,
     <<"(", "(", "\"", "a", "b", "\"", " ", "5", ")", " ", "7", ")">>}

EqualValues ==
    {sexp_in(t).data : t \in EqualTexts}
        \cup {IntegerEncoded(5), LongStringEncoded(<<115>>),
              FloatEncoded(<<0, 0, 0, 0, 0, 0, 0, 0>>),
              FloatEncoded(<<0, 0, 0, 0, 0, 0, 0, 128>>),
              FloatEncoded(<<0, 0, 0, 0, 0, 0, 248, 127>>),
              sexp_cdr(sexp_in(<<"(", "0", " ", "1", " ", "2", ")">>).data).data,
              sexp_nth(sexp_in(<<"(", "b", " ", "a", ")">>).data, 1).data,
              sexp_car(sexp_in(<<"(", "a", " ", "b", ")">>).data).data,
              WithoutSymbols(sexp_in(<<"a">>).data)}

InitEqual ==
    /\ va \in EqualValues
    /\ vb \in EqualValues
    /\ \E c \in EqualValues : res = [op |-> "values", vc |-> c]

\* sexp_eq on each pair of the three values.
Equal ==
    /\ res.op = "values"
    /\ res' = [op |-> "sexp_eq", vc |-> res.vc,
               aa |-> sexp_equal(va, va), ab |-> sexp_equal(va, vb),
               ba |-> sexp_equal(vb, va), bc |-> sexp_equal(vb, res.vc),
               ac |-> sexp_equal(va, res.vc)]
    /\ UNCHANGED <<va, vb>>

\* sexp_hash of va and of vb.
Hash ==
    /\ res.op = "values"
    /\ res' = [op |-> "sexp_hash", vc |-> res.vc,
               ha |-> sexp_compute_hash(va), hb |-> sexp_compute_hash(vb)]
    /\ UNCHANGED <<va, vb>>

\* elements_equal_recursive on the root elements of va and vb: the answer,
\* the two cursors after the call, and the ends of the two elements.
Lockstep ==
    /\ res.op = "values"
    /\ \E state \in {<<init_read_state_internal(va), init_read_state_internal(vb)>>} :
          res' = [op |-> "elements_equal_recursive", vc |-> res.vc,
                  r |-> elements_equal_recursive(va, state[1].symbols, state[1].ptr, state[1].end,
                                                 vb, state[2].symbols, state[2].ptr, state[2].end),
                  end_a |-> skip_element(va, state[1].ptr, state[1].end),
                  end_b |-> skip_element(vb, state[2].ptr, state[2].end)]
    /\ UNCHANGED <<va, vb>>

NextEqual == Equal \/ Hash \/ Lockstep

SpecEqual == InitEqual /\ [][NextEqual]_vars

(***************************************************************************)
(* Properties.                                                             *)
(***************************************************************************)
\* C1: two values that compare equal have the same hash, whatever sequence
\* of car, cdr and nth the first came from: equal(a, b) => hash(a) = hash(b).
EqualValuesHashEqual ==
    res.op = "compare" /\ res.equal => res.hash_a = res.hash_b

\* C2: when the consistent function answers false on the check vector of
\* a probe for va @> vb or va @>> vb, the operator is false on the stored
\* value and the query: the index drops no row that matches.
IndexKeepsMatches ==
    /\ res.op = "probe"
    /\ res.strategy \in {SEXP_GIN_CONTAINS_STRATEGY, SEXP_GIN_CONTAINS_KEY_STRATEGY}
    /\ res.out.status = "ok"
    /\ ~res.out.result
    => ~res.operator

\* C3: when the needle is contained in the container by the rule of
\* structural or of key-based containment, every bit of the needle's Bloom
\* signature is in the container's.
BloomKeepsContainment ==
    /\ res.op = "compare"
    /\ \/ StructuralRule(ContentOf(va), ContentOf(vb))
       \/ KeyRule(ContentOf(va), ContentOf(vb), FALSE)
    => bloom_may_contain(res.bloom_a, res.bloom_b)

\* C4: contains(C, N) is true exactly when C or a descendant of C is
\* semantically equal to N.
ContainsIsStructuralRule ==
    res.op = "compare" =>
        (res.contains <=> StructuralRule(ContentOf(va), ContentOf(vb)))

\* C5: contains_key(C, N) is true whenever a list in C and the list N have
\* equal heads and every tail element of N is matched by a tail element of
\* that list, in any order and with any further tail elements.
ContainsKeyHoldsByRule ==
    /\ res.op = "compare"
    /\ ContentOf(vb)[1] = "list"
    /\ KeyRule(ContentOf(va), ContentOf(vb), FALSE)
    => res.contains_key

\* C6: contains_key(C, N) on a list N is true only if a list of C offers a
\* separate matching tail element for each tail element of N.
ContainsKeyConsumes ==
    /\ res.op = "compare"
    /\ ContentOf(vb)[1] = "list"
    /\ res.contains_key
    => KeyRule(ContentOf(va), ContentOf(vb), TRUE)

\* C7: on a value taken by car, cdr or nth from a larger one, equal, hash,
\* contains and contains_key answer as they do on the parsed value of the
\* same content (the same tree, printed as the same text).
ExtractedAsParsed ==
    /\ res.op = "compare"
    /\ res.source \in {"car", "cdr", "nth"}
    /\ ContentOf(va) = ContentOf(vb)
    /\ sexp_to_cstring(va) = sexp_to_cstring(vb)
    => /\ res.equal
       /\ res.hash_a = res.hash_b
       /\ res.contains = sexp_contains(vb, vb)
       /\ res.contains_key = sexp_contains_key(vb, vb)

\* C8: the text printed for a parsed value parses, and to a value equal to
\* the one printed.
PrintedTextParsesBack ==
    res.op = "sexp_in_again" => res.err = "" /\ res.equal

\* C9: triconsistent answers false exactly when a query key is GIN_FALSE,
\* and true only when every key is GIN_TRUE and the query is a single atom,
\* so never true on a list query.
TriConsistentAnswer ==
    res.op = "triprobe" /\ res.out.status = "ok" =>
        /\ res.out.result = "GIN_FALSE" <=> \E i \in 1..res.nkeys : res.check[i] = "GIN_FALSE"
        /\ res.out.result = "GIN_TRUE" =>
              /\ \A i \in 1..res.nkeys : res.check[i] = "GIN_TRUE"
              /\ ~res.query_is_list

\* C10: after every call of consistent that returns, for every strategy,
\* key count and check vector, the recheck flag is true.
ConsistentSetsRecheck ==
    res.op \in {"consistent", "probe"} /\ res.out.status = "ok" => res.out.recheck

\* A call of consistent that returned, made with the flag false.
ConsistentSetsRecheckWitness ==
    /\ res.op = "consistent"
    /\ res.out.status = "ok"
    /\ res.strategy = SEXP_GIN_CONTAINED_STRATEGY
    /\ res.nkeys = MaxKeys
    /\ ~res.recheck0
    /\ res.out.recheck

\* C11: for a list L of length >= 1, length(L) = 1 + length(cdr(L)); car(L)
\* is element 0 of L and element i of cdr(L) is element i + 1 of L, so L is
\* car(L) put before the elements of cdr(L); cdr of a one-element list is
\* NIL.
LengthCarCdrIdentity ==
    res.op = "decompose" /\ ContentOf(va)[1] = "list" =>
        /\ res.length >= 1
        /\ res.car.status = "ok"
        /\ res.cdr.status = "ok"
        /\ res.length = 1 + res.cdr_length
        /\ sexp_equal(res.car.data, sexp_nth(va, 0).data)
        /\ \A i \in 1..(res.length - 1) :
              /\ sexp_nth(res.cdr.data, i - 1).status = "ok"
              /\ sexp_nth(va, i).status = "ok"
              /\ sexp_equal(sexp_nth(res.cdr.data, i - 1).data, sexp_nth(va, i).data)
        /\ res.length = 1 => res.cdr.data = sexp_get_nil_singleton

\* car and cdr taken from a large list (more than SEXP_SMALL_LIST_MAX
\* elements remain in the cdr) and from a one-element list.
LengthCarCdrIdentityWitness ==
    /\ res.op = "decompose"
    /\ ContentOf(va)[1] = "list"
    /\ res.length = SEXP_SMALL_LIST_MAX + 2
    /\ res.cdr_length = SEXP_SMALL_LIST_MAX + 1

RECURSIVE PreOrder(_)
PreOrder(v) ==
    LET RECURSIVE below(_)
        below(i) == IF i >= sexp_length(v) THEN <<>>
                    ELSE PreOrder(sexp_nth(v, i).data) \o below(i + 1)
    IN  <<v>> \o (IF ContentOf(v)[1] = "list" THEN below(0) ELSE <<>>)

\* C13: find_first(expr, pat) answers the first subtree of expr in
\* depth-first pre-order that matches pat (the answer matches pat and no
\* earlier subtree does), and answers absent exactly when no subtree
\* matches.
FindFirstIsFirstMatch ==
    res.op = "find" =>
        LET subs == PreOrder(va)
            hits == {i \in 1..Len(subs) : sexp_match(subs[i], vb)}
        IN  IF hits = {} THEN res.found.status = "null"
            ELSE /\ res.found.status = "ok"
                 /\ sexp_match(res.found.data, vb)
                 /\ \E i \in hits : /\ \A j \in hits : i <= j
                                    /\ res.found.data = subs[i]

\* A search that passed over the root and an earlier element and found a
\* match below, with a later subtree that matches as well.
FindFirstIsFirstMatchWitness ==
    /\ res.op = "find"
    /\ res.found.status = "ok"
    /\ LET subs == PreOrder(va)
           hits == {i \in 1..Len(subs) : sexp_match(subs[i], vb)}
       IN  /\ Cardinality(hits) >= 2
           /\ \A i \in hits : i > 2

\* Element i (0-based) of pattern is the rest wildcard _*.
IsRestAt(pattern, i) ==
    ContentOf(sexp_nth(pattern, i).data) = <<"symbol", <<95, 42>>>>

\* C14: a list pattern whose last element is _* (and no other) matches
\* exactly the lists whose leading elements match the pattern elements
\* before it one to one, whatever elements follow (none included); a list
\* pattern with _* before its last position matches nothing.
RestWildcard ==
    res.op = "match" /\ ContentOf(vb)[1] = "list" =>
        LET n == sexp_length(vb)
        IN  /\ (\E i \in 0..(n - 2) : IsRestAt(vb, i)) => ~res.matched
            /\ (IsRestAt(vb, n - 1) /\ \A i \in 0..(n - 2) : ~IsRestAt(vb, i)) =>
                  (res.matched <=>
                      /\ ContentOf(va)[1] = "list"
                      /\ sexp_length(va) >= n - 1
                      /\ \A i \in 0..(n - 2) :
                            sexp_match(sexp_nth(va, i).data, sexp_nth(vb, i).data))

\* A pattern ending in _* matched a list with two or more elements beyond
\* the pattern's leading ones.
RestWildcardWitness ==
    /\ res.op = "match"
    /\ res.matched
    /\ ContentOf(vb)[1] = "list"
    /\ IsRestAt(vb, sexp_length(vb) - 1)
    /\ sexp_length(vb) >= 2
    /\ sexp_length(va) >= sexp_length(vb) + 1


\* The number grammar of the language:
\*   number ::= [+-]? digits ('.' digits)? ([eE][+-]? digits)?
IsDigitsText(t) == Len(t) > 0 /\ \A i \in 1..Len(t) : \E k \in 1..10 : Digits[k] = t[i]
IsNumberText(t) ==
    \E s \in 0..1, i, j \in 1..Len(t) :
        /\ s = 1 => t[1] \in {"+", "-"}
        /\ s < i /\ i <= j
        /\ IsDigitsText(SubSeq(t, s + 1, i))
        /\ \/ j = i
           \/ j >= i + 2 /\ t[i + 1] = "." /\ IsDigitsText(SubSeq(t, i + 2, j))
        /\ \/ j = Len(t)
           \/ /\ j + 2 <= Len(t)
              /\ t[j + 1] \in {"e", "E"}
              /\ \E x \in 0..1 :
                    /\ x = 1 => t[j + 2] \in {"+", "-"}
                    /\ IsDigitsText(SubSeq(t, j + 2 + x, Len(t)))

\* C15: every token of the number grammar, the exponent forms included,
\* parses without error as an integer or a float, never as a symbol.
NumberTokensParseAsNumbers ==
    (res.op = "sexp_in" /\ "err" \in DOMAIN res /\ IsNumberText(vb))
        => (res.err = "" /\ ContentOf(va)[1] \in {"integer", "float"})


\* C16: car and cdr of NIL are absent (no value, no error); car and cdr of
\* an atom other than NIL raise a datatype-mismatch error; of a list they
\* return a value, and cdr of a one-element list returns NIL.
CarCdrByType ==
    res.op = "decompose" =>
        LET type == ContentOf(va)[1]
        IN  /\ type = "nil" => res.car = Null /\ res.cdr = Null
            /\ type \notin {"nil", "list"} =>
                  /\ res.car = Error("ERRCODE_DATATYPE_MISMATCH")
                  /\ res.cdr = Error("ERRCODE_DATATYPE_MISMATCH")
            /\ type = "list" =>
                  /\ res.car.status = "ok"
                  /\ res.cdr.status = "ok"
                  /\ Len(ContentOf(va)[2]) = 1 => ContentOf(res.cdr.data) = <<"nil", 0>>

\* car and cdr were applied to a string atom and raised the error.
CarCdrByTypeWitness ==
    /\ res.op = "decompose"
    /\ ContentOf(va)[1] = "string"
    /\ res.car.status = "error"
    /\ res.cdr.status = "error"


\* C17: every operation that reads a stored value whose version byte is
\* greater than SEXP_FORMAT_VERSION fails with an error and gives no
\* result: print, equal, hash, car, cdr, nth, contains, contains_key,
\* match, find_first and index key extraction.
HigherVersionFails ==
    (res.op \notin {"buffer", "sexp_recv"} /\ va[1] > SEXP_FORMAT_VERSION)
        => \A i \in DOMAIN res.out : res.out[i].status = "error"

\* C18: a value accepted by sexp_recv has a symbol reference whose index is
\* not below the symbol count; every operation that reads the reference
\* (print, equal, hash, containment, match, key extraction) ends with a
\* data-corruption error and gives no result.
InvalidSymbolRefFails ==
    (/\ res.op \in {"sexp_out", "sexp_eq", "sexp_hash", "contains", "match",
                    "sexp_gin_extract_value"}
     /\ va \in InvalidSymbolValues)
        => \A i \in DOMAIN res.out : res.out[i] = Error("ERRCODE_DATA_CORRUPTED")

\* C19: parse raises an invalid-text error and returns no value for an
\* input with an unterminated list, an unterminated string, or characters
\* other than white space and comment after the root expression.
MalformedTextRejected ==
    (/\ res.op = "sexp_in" /\ "err" \in DOMAIN res
     /\ vb \in UnterminatedListTexts \cup UnterminatedStringTexts \cup TrailingTexts)
        => (res.errcode = "ERRCODE_INVALID_TEXT_REPRESENTATION" /\ va = <<>>)

\* A complete list followed, after a comment line, by another expression
\* was rejected for its trailing characters.
MalformedTextRejectedWitness ==
    /\ res.op = "sexp_in" /\ "err" \in DOMAIN res
    /\ vb = <<"(", "a", ")", ";", "c", ")", "\n", "(", "a", ")">>
    /\ res.err = "unexpected characters after s-expression"
    /\ va = <<>>

\* The number of lists nested in a text.
NestingOf(text) == Cardinality({i \in 1..Len(text) : text[i] = "("})
\* The text closes every list it opens.
IsComplete(text) ==
    Cardinality({i \in 1..Len(text) : text[i] = ")"}) = NestingOf(text)

\* C20: a list nested to SEXP_MAX_DEPTH - 1 levels parses and a list nested
\* to SEXP_MAX_DEPTH levels raises the limit-exceeded error; the depth
\* counter never exceeds SEXP_MAX_DEPTH and is back at its initial value 0
\* when the parse has ended with a value.
NestingLimit ==
    res.op \in {"parsing", "parsed", "error"} =>
        /\ res.depth <= SEXP_MAX_DEPTH
        /\ res.op = "parsed" => res.depth = 0
        /\ (res.op # "parsing" /\ IsComplete(vb) /\ NestingOf(vb) = SEXP_MAX_DEPTH - 1)
              => res.op = "parsed"
        /\ (res.op # "parsing" /\ IsComplete(vb) /\ NestingOf(vb) = SEXP_MAX_DEPTH)
              => (res.op = "error" /\ ParseErrcode(res.err) = "ERRCODE_PROGRAM_LIMIT_EXCEEDED")

\* C21: the parser raises a limit-exceeded error on more than
\* SEXP_MAX_SYMBOLS distinct symbols: the table never holds more than
\* SEXP_MAX_SYMBOLS entries and no value is built with more.
SymbolLimit ==
    res.op \in {"intern_symbol", "sexp_parse"} => res.count <= SEXP_MAX_SYMBOLS

\* The elements of a sequence.
RangeOf(s) == {s[i] : i \in 1..Len(s)}

\* The lists in a value, each as a value of its own: those of two elements
\* with a symbol first, and the others.
ListsOf(v) == {s \in RangeOf(PreOrder(v)) : ContentOf(s)[1] = "list"}
PairListsOf(v) ==
    {s \in ListsOf(v) : Len(ContentOf(s)[2]) = 2 /\ ContentOf(s)[2][1][1] = "symbol"}

\* The pair key and the list-head key of a list.
PairKeyOf(s) ==
    With(read_symbol_table(s), LAMBDA st :
        GinPairKey(s, GinListHeader(s, st.ptr, st.end), st.end, st.symbols))
HeadKeyOf(s) ==
    With(read_symbol_table(s), LAMBDA st :
        GinHeadKey(s, GinListHeader(s, st.ptr, st.end), st.end, st.symbols))

IsLargeList(s) ==
    With(init_read_state_internal(s), LAMBDA st :
        TagOf(s[st.ptr]) = SEXP_TAG_LIST /\ DataOf(s[st.ptr]) = 0)

\* The structural hash in the header of a large list, and the hash of the
\* list computed from its children.
StoredHashOf(s) == ReadU32(s, init_read_state_internal(s).ptr + 5)
ChildrenHashOf(s) ==
    ListHash([i \in 1..sexp_length(s) |-> sexp_compute_hash(sexp_nth(s, i - 1).data)])

\* C23: in a parsed value and in every value that car, cdr and nth give,
\* the structural hash stored in the header of each large list is the hash
\* computed from the children of the list.
StoredHashIsChildrenHash ==
    \A s \in RangeOf(PreOrder(va)) : IsLargeList(s) => StoredHashOf(s) = ChildrenHashOf(s)

\* The root of the value is a symbol reference, and its index.
IsSymbolRef(s) == TagOf(s[init_read_state_internal(s).ptr]) = SEXP_TAG_SYMBOL_REF
SymbolIndexOf(s) ==
    With(init_read_state_internal(s), LAMBDA st : decode_varint(s, st.ptr + 1, st.end)[1])

\* Every symbol reference of the value has an index below the count of the
\* value's symbol table, and no two entries of the table are the same.
SymbolTableSound(v) ==
    With(init_read_state_internal(v).symbols, LAMBDA symbols :
        /\ \A s \in RangeOf(PreOrder(v)) : IsSymbolRef(s) => SymbolIndexOf(s) < Len(symbols)
        /\ \A i, j \in 1..Len(symbols) : symbols[i] = symbols[j] => i = j)

\* C24: in a parsed value and in every value that car, cdr, nth and
\* find_first give, each symbol reference indexes an entry of the value's
\* own symbol table and the table has no two equal entries.
SymbolTableInvariant ==
    /\ SymbolTableSound(va)
    /\ SymbolTableSound(vb)
    /\ (res.op = "find" /\ res.found.status = "ok") => SymbolTableSound(res.found.data)

\* find_first gave a subtree that refers to a symbol other than the first
\* of the table it took over from the whole value.
SymbolTableInvariantWitness ==
    /\ res.op = "find"
    /\ res.found.status = "ok"
    /\ res.found.data # va
    /\ \E s \in RangeOf(PreOrder(res.found.data)) : IsSymbolRef(s) /\ SymbolIndexOf(s) >= 1
    /\ SymbolTableSound(res.found.data)

\* The value's root element, when it is an integer in either encoding or a
\* string in either encoding: <<kind, content>>; <<"other">> when neither.
AtomContentOf(v) ==
    With(init_read_state_internal(v), LAMBDA st :
        LET byte == v[st.ptr]
            tag  == TagOf(byte)
        IN  CASE tag = SEXP_TAG_SMALLINT -> <<"integer", DataOf(byte) - SEXP_SMALLINT_BIAS>>
              [] tag = SEXP_TAG_INTEGER ->
                    <<"integer", zigzag_decode(decode_varint(v, st.ptr + 1, st.end)[1])>>
              [] tag = SEXP_TAG_SHORT_STRING ->
                    <<"string", Slice(v, st.ptr + 1, st.ptr + 1 + DataOf(byte))>>
              [] tag = SEXP_TAG_LONG_STRING ->
                    With(decode_varint(v, st.ptr + 1, st.end), LAMBDA len :
                        <<"string", Slice(v, len[2], len[2] + len[1])>>)
              [] OTHER -> <<"other">>)

\* va and vb hold the same integer or the same string, in any encodings.
SameAtomContent == AtomContentOf(va)[1] # "other" /\ AtomContentOf(va) = AtomContentOf(vb)

\* C25: two elements that hold the same integer of -16..15, one with the
\* small-int tag and one with the integer tag, are equal, two elements that
\* hold the same string, one short and one long, are equal, and in both
\* cases the two hashes are the same.
EqualAcrossEncodings ==
    /\ (res.op = "sexp_eq" /\ SameAtomContent) => res.ab
    /\ (res.op = "sexp_hash" /\ SameAtomContent) => res.ha = res.hb

\* C26: equal is an equivalence on values: equal(a, a) for every a,
\* equal(a, b) gives equal(b, a), and equal(a, b) with equal(b, c) gives
\* equal(a, c), whether a pair is answered by its bytes or by the walk.
EqualIsEquivalence ==
    res.op = "sexp_eq" =>
        /\ res.aa
        /\ res.ab => res.ba
        /\ (res.ab /\ res.bc) => res.ac

\* Three values of different bytes, each pair equal by the walk.
EqualIsEquivalenceWitness ==
    /\ res.op = "sexp_eq"
    /\ va # vb /\ vb # res.vc /\ va # res.vc
    /\ res.ab /\ res.ba /\ res.bc /\ res.ac

\* C30: when the lockstep comparison returns, true or false, each cursor is
\* at the end of the element it was comparing, also after a mismatch inside
\* a list.
CursorsAtElementEnd ==
    res.op = "elements_equal_recursive" => res.r.pa = res.end_a /\ res.r.pb = res.end_b

\* C27: the keys that sexp_gin_extract_value and sexp_gin_extract_query
\* return are at most MAX_GIN_KEYS, no key is there twice, and every key
\* has its top bit set.
KeysBoundedDistinctMarked ==
    res.op \in {"sexp_gin_extract_value", "sexp_gin_extract_query"} =>
        /\ Len(res.keys) <= MAX_GIN_KEYS
        /\ \A i, j \in 1..Len(res.keys) : res.keys[i] = res.keys[j] => i = j
        /\ \A i \in 1..Len(res.keys) : res.keys[i][1] >= 32768

\* The keys of a list with more atoms than the limit: cut at the limit.
KeysBoundedDistinctMarkedWitness ==
    /\ res.op = "sexp_gin_extract_value"
    /\ va = IntegerList(MAX_GIN_KEYS + 1)
    /\ Len(res.keys) = MAX_GIN_KEYS

\* C28: the NIL singleton is allocated at most once; once requested, the
\* variable holds the format version, a zero symbol count and the NIL tag
\* and keeps them through every operation, also those that take or return
\* the singleton; a value returned as the singleton is that datum.
NilSingletonOnce ==
    /\ res.allocations <= 1
    /\ vb \in {<<>>, <<SEXP_FORMAT_VERSION, 0, SEXP_TAG_NIL>>}
    /\ res.requests > 0 => (vb # <<>> /\ res.allocations = 1)
    /\ res.returned => va = vb

\* The singleton requested a second time, after operations on it.
NilSingletonOnceWitness ==
    /\ res.requests >= 2
    /\ res.allocations = 1
    /\ res.op = "read"
    /\ res.returned
    /\ va = <<SEXP_FORMAT_VERSION, 0, SEXP_TAG_NIL>>

\* C29: in a containment scan and in a key extraction over a list the
\* interrupt check is reached at least once for every top-level child
\* taken, so no child is taken while a cancellation is pending.
InterruptCheckPerChild ==
    res.op \in {"scan", "done"} => (res.checks >= res.i /\ res.unobserved = 0)

====
